---- MODULE Spec2Model ----
(***************************************************************************)
(* Lead-time trend analysis engine of multi-repos-etl                      *)
(* (src/src/analysis/lead_time_analyzer.py).                               *)
(*                                                                         *)
(* Representation                                                          *)
(*  - an instant (datetime) is an integer number of seconds since          *)
(*    2023-01-01 00:00:00, which was a Sunday;                             *)
(*  - hours and days with two decimals are integers in hundredths          *)
(*    (lead_time_hours 28.0 is 2800); percentages with two decimals are    *)
(*    integers in hundredths of a percent (33.33 is 3333);                 *)
(*  - round(x, 2) is rounding of the exact quotient to the nearest         *)
(*    hundredth, ties to even;                                             *)
(*  - a Python string is the sequence of its character codes, so that      *)
(*    sorted(), split() and int() are computed on characters;              *)
(*  - an optional value is <<>> (None) or <<v>>.                           *)
(***************************************************************************)
EXTENDS Integers, Sequences, FiniteSets, TLC

None == <<>>

Some(v) == <<v>>

IsNone(o) == o = <<>>

\* ------------------------------------------------------------------------
\* Sequences
\* ------------------------------------------------------------------------

Range(s) == {s[i] : i \in 1..Len(s)}

RECURSIVE SumSeq(_)
SumSeq(s) == IF s = <<>> THEN 0 ELSE Head(s) + SumSeq(Tail(s))

RECURSIVE MinSeq(_)
MinSeq(s) ==
    IF Len(s) = 1 THEN s[1]
    ELSE LET m == MinSeq(Tail(s)) IN IF s[1] <= m THEN s[1] ELSE m

RECURSIVE MaxSeq(_)
MaxSeq(s) ==
    IF Len(s) = 1 THEN s[1]
    ELSE LET m == MaxSeq(Tail(s)) IN IF s[1] >= m THEN s[1] ELSE m

RECURSIVE InsertSorted(_, _)
InsertSorted(x, s) ==
    IF s = <<>> THEN <<x>>
    ELSE IF x < Head(s) THEN <<x>> \o s
    ELSE <<Head(s)>> \o InsertSorted(x, Tail(s))

\* sorted(values) for a list of numbers
RECURSIVE SortedInts(_)
SortedInts(s) ==
    IF s = <<>> THEN <<>> ELSE InsertSorted(s[Len(s)], SortedInts(SubSeq(s, 1, Len(s) - 1)))

\* all sequences over S of length 0..n
SeqsUpTo(S, n) == UNION {[1..k -> S] : k \in 0..n}

\* ------------------------------------------------------------------------
\* Numbers
\* ------------------------------------------------------------------------

\* round(a / b) to the nearest integer, ties to even, b > 0
RoundDiv(a, b) ==
    LET q == a \div b
        r == a % b
    IN  IF 2 * r < b THEN q
        ELSE IF 2 * r > b THEN q + 1
        ELSE IF q % 2 = 0 THEN q ELSE q + 1

\* ------------------------------------------------------------------------
\* Strings as sequences of character codes
\* ------------------------------------------------------------------------

ChDash == 45

ChZero == 48

ChW == 87

IsDigit(c) == c >= ChZero /\ c <= ChZero + 9

\* str < str in Python: lexicographic by character code
RECURSIVE StrLess(_, _)
StrLess(a, b) ==
    IF b = <<>> THEN FALSE
    ELSE IF a = <<>> THEN TRUE
    ELSE IF Head(a) < Head(b) THEN TRUE
    ELSE IF Head(a) > Head(b) THEN FALSE
    ELSE StrLess(Tail(a), Tail(b))

RECURSIVE InsertSortedStr(_, _)
InsertSortedStr(x, s) ==
    IF s = <<>> THEN <<x>>
    ELSE IF StrLess(x, Head(s)) THEN <<x>> \o s
    ELSE <<Head(s)>> \o InsertSortedStr(x, Tail(s))

\* sorted(d.keys()) for a set of strings
RECURSIVE SortedKeys(_)
SortedKeys(S) ==
    IF S = {} THEN <<>>
    ELSE LET k == CHOOSE x \in S : TRUE
         IN  InsertSortedStr(k, SortedKeys(S \ {k}))

\* decimal digits of n >= 0, without padding
RECURSIVE DecStr(_)
DecStr(n) ==
    IF n < 10 THEN <<ChZero + n>> ELSE DecStr(n \div 10) \o <<ChZero + (n % 10)>>

\* n formatted with a minimum width of two digits: %m, %U and {n:02d}
Pad2(n) == IF n < 10 THEN <<ChZero>> \o DecStr(n) ELSE DecStr(n)

\* int(s): the value, or None for the ValueError of a non-numeric string
RECURSIVE DigitsValue(_)
DigitsValue(s) ==
    IF s = <<>> THEN 0 ELSE 10 * DigitsValue(SubSeq(s, 1, Len(s) - 1)) + (s[Len(s)] - ChZero)

ParseInt(s) ==
    IF s # <<>> /\ \A i \in 1..Len(s) : IsDigit(s[i]) THEN Some(DigitsValue(s)) ELSE None

StartsWith(s, sep) == Len(s) >= Len(sep) /\ SubSeq(s, 1, Len(sep)) = sep

\* s.split(sep) for a non-empty separator
RECURSIVE SplitFrom(_, _, _)
SplitFrom(s, sep, cur) ==
    IF s = <<>> THEN <<cur>>
    ELSE IF StartsWith(s, sep)
         THEN <<cur>> \o SplitFrom(SubSeq(s, Len(sep) + 1, Len(s)), sep, <<>>)
         ELSE SplitFrom(Tail(s), sep, cur \o <<Head(s)>>)

Split(s, sep) == SplitFrom(s, sep, <<>>)

\* ------------------------------------------------------------------------
\* Calendar (datetime, timedelta, strftime)
\* ------------------------------------------------------------------------

\* day 0 of the calendar: 1 January 2023, a Sunday (weekday() = 6)
Epoch == [year |-> 2023, weekday |-> 6]

SecondsPerDay == 24 * 3600

IsLeap(y) == (y % 4 = 0 /\ y % 100 # 0) \/ y % 400 = 0

DaysInYear(y) == IF IsLeap(y) THEN 366 ELSE 365

DaysInMonth(y, m) ==
    IF m = 2 THEN (IF IsLeap(y) THEN 29 ELSE 28)
    ELSE IF m \in {4, 6, 9, 11} THEN 30 ELSE 31

\* day number (0 = 1 January of Epoch.year) of 1 January of year y
RECURSIVE YearStart(_)
YearStart(y) == IF y <= Epoch.year THEN 0 ELSE YearStart(y - 1) + DaysInYear(y - 1)

RECURSIVE YearFrom(_, _)
YearFrom(d, y) == IF d < DaysInYear(y) THEN y ELSE YearFrom(d - DaysInYear(y), y + 1)

YearOf(d) == YearFrom(d, Epoch.year)

\* tm_yday - 1: days elapsed since 1 January of the day's own year
YDay(d) == d - YearStart(YearOf(d))

RECURSIVE MonthFrom(_, _, _)
MonthFrom(yd, y, m) ==
    IF yd < DaysInMonth(y, m) THEN m ELSE MonthFrom(yd - DaysInMonth(y, m), y, m + 1)

MonthOf(d) == MonthFrom(YDay(d), YearOf(d), 1)

RECURSIVE MonthStart(_, _)
MonthStart(y, m) == IF m = 1 THEN 0 ELSE MonthStart(y, m - 1) + DaysInMonth(y, m - 1)

\* the instant y-m-d hh:00:00
At(y, m, d, hh) == (YearStart(y) + MonthStart(y, m) + (d - 1)) * SecondsPerDay + hh * 3600

DayOf(t) == t \div SecondsPerDay

\* datetime.weekday(): Monday is 0
Weekday(d) == (d + Epoch.weekday) % 7

\* %U: week of the year with Sunday as the first day of the week; the days
\* before the first Sunday of the year are in week 0
WeekU(d) == (YDay(d) + 7 - ((Weekday(d) + 1) % 7)) \div 7

\* date.strftime('%Y-%m')
StrfMonthly(t) == DecStr(YearOf(DayOf(t))) \o <<ChDash>> \o Pad2(MonthOf(DayOf(t)))

\* date.strftime('%Y-W%U')
StrfWeekly(t) == DecStr(YearOf(DayOf(t))) \o <<ChDash, ChW>> \o Pad2(WeekU(DayOf(t)))

\* ------------------------------------------------------------------------
\* Raw pull requests and timestamp values
\* ------------------------------------------------------------------------

\* A timestamp value is [shape, t]: the shape of the value the record holds
\* and the instant it denotes.
\*   iso_z       "2024-01-10T10:00:00Z"
\*   db          "2024-01-10 10:00:00"
\*   db_frac     "2024-01-10 10:00:00.123456"
\*   iso_no_z    "2024-01-10T10:00:00"
\*   iso_frac_z  "2024-01-10T10:00:00.123Z"
\*   garbage     "not a date"
\*   empty       ""
\*   blank       "   "
\*   datetime    an already parsed datetime object
StringShapes == {"iso_z", "db", "db_frac", "iso_no_z", "iso_frac_z", "garbage", "empty", "blank"}

TV(shape, t) == [shape |-> shape, t |-> t]

\* bool(v) of an optional timestamp value: None and "" are falsy
Truthy(o) == ~IsNone(o) /\ o[1].shape # "empty"

ContainsT(shape) == shape \in {"iso_z", "iso_no_z", "iso_frac_z"}

ContainsZ(shape) == shape \in {"iso_z", "iso_frac_z"}

\* strptime(s, "%Y-%m-%dT%H:%M:%SZ") succeeds
MatchesIsoZ(shape) == shape = "iso_z"

\* strptime(s.split(".")[0], "%Y-%m-%d %H:%M:%S") succeeds
MatchesDbAfterSplit(shape) == shape \in {"db", "db_frac"}

\* _parse_datetime_string: [raised, value]; raised is the TypeError of the
\* membership test on a value that is not a string
ParseDatetimeString(o) ==
    IF ~Truthy(o) THEN [raised |-> FALSE, value |-> None]
    ELSE IF o[1].shape \notin StringShapes THEN [raised |-> TRUE, value |-> None]
    ELSE IF ContainsT(o[1].shape) /\ ContainsZ(o[1].shape)
         THEN [raised |-> FALSE,
               value |-> IF MatchesIsoZ(o[1].shape) THEN Some(o[1].t) ELSE None]
    ELSE [raised |-> FALSE,
          value |-> IF MatchesDbAfterSplit(o[1].shape) THEN Some(o[1].t) ELSE None]

\* LeadTimeAnalyzer._parse_pr_datetime
ParsePRDatetime(o) ==
    IF ~Truthy(o) THEN None
    ELSE LET r == ParseDatetimeString(o)
         IN  IF r.raised THEN None ELSE r.value

\* An element of the input list: None, a value that is not a dict, or a
\* dict.  A key that is missing and a key that holds None both read as None
\* through pr.get(key) and through the required-field test.
PR(id, number, created_at, merged_at, closed_at, state) ==
    [kind |-> "dict", id |-> id, number |-> number, created_at |-> created_at,
     merged_at |-> merged_at, closed_at |-> closed_at, state |-> state]

NonePR == [kind |-> "none", id |-> None, number |-> None, created_at |-> None,
           merged_at |-> None, closed_at |-> None, state |-> None]

NotADictPR == [kind |-> "other", id |-> None, number |-> None, created_at |-> None,
               merged_at |-> None, closed_at |-> None, state |-> None]

\* ------------------------------------------------------------------------
\* LeadTimeAnalyzer: lead-time calculation
\* ------------------------------------------------------------------------

\* LeadTimeAnalyzer._validate_pr_data
ValidatePRData(pr) ==
    /\ pr.kind = "dict"
    /\ ~IsNone(pr.id)
    /\ ~IsNone(pr.number)
    /\ ~IsNone(pr.created_at)
    /\ ~IsNone(pr.state)
    /\ pr.created_at[1].shape \notin {"empty", "blank"}

\* variant of ResolveEndTime in which the close timestamp is tried before the
\* merge timestamp
ResolveEndTimeClosedFirst(pr, clock) ==
    LET closed == IF Truthy(pr.closed_at) THEN ParsePRDatetime(pr.closed_at) ELSE None
        merged == IF IsNone(closed) /\ Truthy(pr.merged_at)
                  THEN ParsePRDatetime(pr.merged_at) ELSE None
    IN  IF ~IsNone(closed) THEN Some([end_time |-> closed[1], end_type |-> "closed"])
        ELSE IF ~IsNone(merged) THEN Some([end_time |-> merged[1], end_type |-> "merged"])
        ELSE IF pr.state = Some("open") THEN Some([end_time |-> clock, end_type |-> "open"])
        ELSE None

\* the end time and end type chosen by _calculate_single_pr_lead_time
ResolveEndTime(pr, clock) ==
    LET merged == IF Truthy(pr.merged_at) THEN ParsePRDatetime(pr.merged_at) ELSE None
        closed == IF IsNone(merged) /\ Truthy(pr.closed_at)
                  THEN ParsePRDatetime(pr.closed_at) ELSE None
    IN  IF ~IsNone(merged) THEN Some([end_time |-> merged[1], end_type |-> "merged"])
        ELSE IF ~IsNone(closed) THEN Some([end_time |-> closed[1], end_type |-> "closed"])
        ELSE IF pr.state = Some("open") THEN Some([end_time |-> clock, end_type |-> "open"])
        ELSE None

\* LeadTimeAnalyzer._calculate_single_pr_lead_time: None or the result dict.
\* In the result created_at is the parsed datetime and lead_time_hours a
\* number; both are optional values because the operations on lead-time
\* records test for their presence.
CalculateSinglePRLeadTime(pr, clock) ==
    IF ~ValidatePRData(pr) THEN None
    ELSE LET created == ParsePRDatetime(pr.created_at)
         IN  IF IsNone(created) THEN None
             ELSE LET e == ResolveEndTime(pr, clock)
                  IN  IF IsNone(e) THEN None
                      ELSE LET secs == e[1].end_time - created[1]
                           IN  Some([pr_id |-> pr.id[1],
                                     pr_number |-> pr.number[1],
                                     created_at |-> Some(TV("datetime", created[1])),
                                     end_time |-> e[1].end_time,
                                     end_type |-> e[1].end_type,
                                     lead_time_hours |-> Some(RoundDiv(secs, 36)),
                                     lead_time_days |-> RoundDiv(secs, 864),
                                     state |-> pr.state[1]])

\* variant of CalcLoop that leaves the loop at the first record it cannot
\* process
RECURSIVE CalcLoopStopsAtError(_, _)
CalcLoopStopsAtError(prs, clock) ==
    IF prs = <<>> THEN [data |-> <<>>, processed |-> 0, errors |-> 0]
    ELSE LET pr == Head(prs)
             info == IF pr.kind = "none" THEN None ELSE CalculateSinglePRLeadTime(pr, clock)
         IN  IF IsNone(info)
             THEN [data |-> <<>>, processed |-> 0, errors |-> 1]
             ELSE LET rest == CalcLoopStopsAtError(Tail(prs), clock)
                  IN  [rest EXCEPT !.data = <<info[1]>> \o @, !.processed = @ + 1]

\* the loop of calculate_lead_times over the list: the records appended and
\* the two counters
RECURSIVE CalcLoop(_, _)
CalcLoop(prs, clock) ==
    IF prs = <<>> THEN [data |-> <<>>, processed |-> 0, errors |-> 0]
    ELSE LET rest == CalcLoop(Tail(prs), clock)
             pr == Head(prs)
             info == IF pr.kind = "none" THEN None ELSE CalculateSinglePRLeadTime(pr, clock)
         IN  IF IsNone(info)
             THEN [rest EXCEPT !.errors = @ + 1]
             ELSE [rest EXCEPT !.data = <<info[1]>> \o @, !.processed = @ + 1]

\* ------------------------------------------------------------------------
\* LeadTimeAnalyzer: grouping by period
\* ------------------------------------------------------------------------

\* variant of GetPeriodKey that formats the date itself, not the Monday of
\* its week
GetPeriodKeyOfDate(date, period) ==
    IF period = "weekly" THEN Some(StrfWeekly(date))
    ELSE IF period = "monthly" THEN Some(StrfMonthly(date))
    ELSE None

\* LeadTimeAnalyzer._get_period_key: the key, or None for the ValueError of
\* an unsupported period type
GetPeriodKey(date, period) ==
    IF period = "weekly"
    THEN LET monday == date - Weekday(DayOf(date)) * SecondsPerDay
         IN  Some(StrfWeekly(monday))
    ELSE IF period = "monthly" THEN Some(StrfMonthly(date))
    ELSE None

\* variant of NormalizePeriod with monthly as the default
NormalizePeriodToMonthly(period) ==
    IF period \notin {"weekly", "monthly"} THEN "monthly" ELSE period

\* the period group_by_period works with
NormalizePeriod(period) == IF period \notin {"weekly", "monthly"} THEN "weekly" ELSE period

\* the key under which the loop of group_by_period files an entry, or None
\* when the entry is skipped
GroupKeyOf(pr_data, period) ==
    IF ~Truthy(pr_data.created_at) THEN None
    ELSE IF pr_data.created_at[1].shape \in StringShapes
         THEN LET parsed == ParsePRDatetime(pr_data.created_at)
              IN  IF IsNone(parsed) THEN None ELSE GetPeriodKey(parsed[1], period)
         ELSE GetPeriodKey(pr_data.created_at[1].t, period)

\* variant of AppendTo that stores the entry as the whole bucket
AppendToOverwrites(grouped, key, pr_data) ==
    [k \in DOMAIN grouped \cup {key} |-> IF k = key THEN <<pr_data>> ELSE grouped[k]]

\* grouped_data[key].append(pr_data)
AppendTo(grouped, key, pr_data) ==
    [k \in DOMAIN grouped \cup {key} |->
        IF k = key
        THEN (IF key \in DOMAIN grouped THEN Append(grouped[key], pr_data) ELSE <<pr_data>>)
        ELSE grouped[k]]

EmptyMap == [k \in {} |-> <<>>]

RECURSIVE GroupLoop(_, _, _)
GroupLoop(data, period, grouped) ==
    IF data = <<>> THEN grouped
    ELSE LET key == GroupKeyOf(Head(data), period)
         IN  IF IsNone(key) THEN GroupLoop(Tail(data), period, grouped)
             ELSE GroupLoop(Tail(data), period, AppendTo(grouped, key[1], Head(data)))

\* LeadTimeAnalyzer.group_by_period
GroupByPeriodOf(data, period) ==
    IF data = <<>> THEN EmptyMap ELSE GroupLoop(data, NormalizePeriod(period), EmptyMap)

\* ------------------------------------------------------------------------
\* LeadTimeAnalyzer: period statistics
\* ------------------------------------------------------------------------

\* a value held under 'lead_time_hours' that is not a number (None, text)
NotANumber == <<0, 0>>

IsNumber(o) == Len(o) = 1

\* [pr['lead_time_hours'] for pr in pr_list if 'lead_time_hours' in pr],
\* each value as it is held
RECURSIVE HeldLeadTimesOf(_)
HeldLeadTimesOf(pr_list) ==
    IF pr_list = <<>> THEN <<>>
    ELSE (IF IsNone(Head(pr_list).lead_time_hours) THEN <<>>
          ELSE <<Head(pr_list).lead_time_hours>>) \o HeldLeadTimesOf(Tail(pr_list))

\* [pr['created_at'] for pr in pr_list if pr.get('created_at')], each value
\* with its type
RECURSIVE HeldDatesOf(_)
HeldDatesOf(pr_list) ==
    IF pr_list = <<>> THEN <<>>
    ELSE (IF Truthy(Head(pr_list).created_at) THEN <<Head(pr_list).created_at[1]>>
          ELSE <<>>) \o HeldDatesOf(Tail(pr_list))

\* min() and max() raise TypeError on a list that holds both datetime
\* objects and strings
Comparable(dates) ==
    \A i, j \in 1..Len(dates) :
        (dates[i].shape = "datetime") = (dates[j].shape = "datetime")

\* min(dates) and max(dates) for comparable dates; strings of one format
\* compare as their instants do
MinDate(dates) == CHOOSE d \in Range(dates) : \A e \in Range(dates) : d.t <= e.t

MaxDate(dates) == CHOOSE d \in Range(dates) : \A e \in Range(dates) : d.t >= e.t

\* the entry of a period without records or without lead times
ZeroPeriodEntry(count) ==
    [count |-> count, average_lead_time_hours |-> 0, average_lead_time_days |-> 0,
     total_lead_time_hours |-> 0, period_start |-> None, period_end |-> None]

\* the entry the except clause stores, with the type of the exception
ErrorPeriodEntry(count, error) ==
    [count |-> count, average_lead_time_hours |-> 0, average_lead_time_days |-> 0,
     total_lead_time_hours |-> 0, period_start |-> None, period_end |-> None,
     error |-> error]

\* variant of PeriodEntry that counts the lead times instead of the records
PeriodEntryCountsLeadTimes(pr_list) ==
    IF pr_list = <<>> THEN ZeroPeriodEntry(0)
    ELSE LET held == HeldLeadTimesOf(pr_list)
             dates == HeldDatesOf(pr_list)
         IN  IF held = <<>> THEN ZeroPeriodEntry(Len(held))
             ELSE IF \E i \in 1..Len(held) : ~IsNumber(held[i])
             THEN ErrorPeriodEntry(Len(held), "TypeError")
             ELSE IF ~Comparable(dates) THEN ErrorPeriodEntry(Len(held), "TypeError")
             ELSE LET lead_times == [i \in 1..Len(held) |-> held[i][1]]
                  IN  [count |-> Len(held),
                       average_lead_time_hours |->
                           RoundDiv(SumSeq(lead_times), Len(lead_times)),
                       average_lead_time_days |->
                           RoundDiv(SumSeq(lead_times), 24 * Len(lead_times)),
                       total_lead_time_hours |-> SumSeq(lead_times),
                       period_start |-> IF dates = <<>> THEN None ELSE Some(MinDate(dates)),
                       period_end |-> IF dates = <<>> THEN None ELSE Some(MaxDate(dates)),
                       lead_times |-> lead_times]

\* the body of the loop of calculate_period_statistics: the entry stored for
\* a period with the records pr_list.  sum() raises TypeError on a value
\* that is not a number.
PeriodEntry(pr_list) ==
    IF pr_list = <<>> THEN ZeroPeriodEntry(0)
    ELSE LET held == HeldLeadTimesOf(pr_list)
             dates == HeldDatesOf(pr_list)
         IN  IF held = <<>> THEN ZeroPeriodEntry(Len(pr_list))
             ELSE IF \E i \in 1..Len(held) : ~IsNumber(held[i])
             THEN ErrorPeriodEntry(Len(pr_list), "TypeError")
             ELSE IF ~Comparable(dates) THEN ErrorPeriodEntry(Len(pr_list), "TypeError")
             ELSE LET lead_times == [i \in 1..Len(held) |-> held[i][1]]
                  IN  [count |-> Len(pr_list),
                       average_lead_time_hours |->
                           RoundDiv(SumSeq(lead_times), Len(lead_times)),
                       average_lead_time_days |->
                           RoundDiv(SumSeq(lead_times), 24 * Len(lead_times)),
                       total_lead_time_hours |-> SumSeq(lead_times),
                       period_start |-> IF dates = <<>> THEN None ELSE Some(MinDate(dates)),
                       period_end |-> IF dates = <<>> THEN None ELSE Some(MaxDate(dates)),
                       lead_times |-> lead_times]

\* LeadTimeAnalyzer.calculate_period_statistics
PeriodStatisticsOf(grouped) == [k \in DOMAIN grouped |-> PeriodEntry(grouped[k])]

\* LeadTimeAnalyzer.get_trend_data
TrendDataOf(data, period) ==
    IF data = <<>>
    THEN [grouped_data |-> EmptyMap, period_statistics |-> EmptyMap,
          period_type |-> period, total_periods |-> 0, total_prs |-> 0]
    ELSE LET grouped == GroupByPeriodOf(data, period)
         IN  [grouped_data |-> grouped,
              period_statistics |-> PeriodStatisticsOf(grouped),
              period_type |-> period,
              total_periods |-> Cardinality(DOMAIN grouped),
              total_prs |-> SumSeq([i \in 1..Cardinality(DOMAIN grouped) |->
                                       Len(grouped[SortedKeys(DOMAIN grouped)[i]])])]

\* ------------------------------------------------------------------------
\* LeadTimeAnalyzer: trend statistics
\* ------------------------------------------------------------------------

\* A change rate before rounding is the exact fraction num / den, den > 0,
\* in percent.
Rate(num, den) == [num |-> num, den |-> den]

ZeroRate == Rate(0, 1)

\* round(change_rate, 2), in hundredths of a percent
RoundRate(r) == RoundDiv(r.num * 100, r.den)

\* variant of DetermineTrendDirection with the thresholds included in the
\* outer ranges
DetermineTrendDirectionInclusive(r) ==
    IF r.num = 0 THEN "stable"
    ELSE IF r.num <= -5 * r.den THEN "improving"
    ELSE IF r.num >= 5 * r.den THEN "worsening"
    ELSE "stable"

\* LeadTimeAnalyzer._determine_trend_direction
DetermineTrendDirection(r) ==
    IF r.num = 0 THEN "stable"
    ELSE IF r.num < -5 * r.den THEN "improving"
    ELSE IF r.num > 5 * r.den THEN "worsening"
    ELSE IF -5 * r.den <= r.num /\ r.num <= 5 * r.den THEN "stable"
    ELSE "unknown"

\* [pr['lead_time_hours'] for pr in pr_list if 'lead_time_hours' in pr]
RECURSIVE LeadTimesOf(_)
LeadTimesOf(pr_list) ==
    IF pr_list = <<>> THEN <<>>
    ELSE (IF IsNone(Head(pr_list).lead_time_hours) THEN <<>>
          ELSE <<Head(pr_list).lead_time_hours[1]>>) \o LeadTimesOf(Tail(pr_list))

\* [pr['created_at'] for pr in pr_list if pr.get('created_at')]
RECURSIVE DatesOf(_)
DatesOf(pr_list) ==
    IF pr_list = <<>> THEN <<>>
    ELSE (IF Truthy(Head(pr_list).created_at) THEN <<Head(pr_list).created_at[1].t>>
          ELSE <<>>) \o DatesOf(Tail(pr_list))

\* ((current_avg - prev_avg) / prev_avg) * 100 where current_avg is the
\* quotient sum / n of hundredths of hours and prev_avg is in hundredths of
\* hours, prev_avg > 0
ChangeRate(sum, n, prev_avg) == Rate((sum - n * prev_avg) * 100, n * prev_avg)

\* variant of TrendEntry without the test for the first position: the
\* predecessor of the first period is periods[-1], the last one
TrendEntryWrapsAround(grouped, periods, i, trend_data) ==
    LET pr_list == grouped[periods[i]]
        lead_times == LeadTimesOf(pr_list)
        n == IF lead_times = <<>> THEN 1 ELSE Len(lead_times)
        sum == SumSeq(lead_times)
        prev == IF i > 1 THEN periods[i - 1] ELSE periods[Len(periods)]
        prev_avg == IF prev \in DOMAIN trend_data THEN trend_data[prev].average ELSE 0
        change_rate == IF prev_avg > 0 THEN ChangeRate(sum, n, prev_avg) ELSE ZeroRate
        dates == DatesOf(pr_list)
    IN  [average |-> RoundDiv(sum, n),
         median |-> IF lead_times = <<>> THEN 0
                    ELSE SortedInts(lead_times)[(Len(lead_times) \div 2) + 1],
         min |-> IF lead_times = <<>> THEN 0 ELSE MinSeq(lead_times),
         max |-> IF lead_times = <<>> THEN 0 ELSE MaxSeq(lead_times),
         count |-> Len(pr_list),
         change_rate |-> RoundRate(change_rate),
         trend_direction |-> DetermineTrendDirection(change_rate),
         previous_period |-> Some(prev),
         period_start |-> IF dates = <<>> THEN None ELSE Some(MinSeq(dates)),
         period_end |-> IF dates = <<>> THEN None ELSE Some(MaxSeq(dates)),
         lead_times |-> lead_times,
         is_empty_period |-> FALSE]

\* the entry calculate_trend_statistics stores for the period at position i
\* of periods, given the entries stored so far
TrendEntry(grouped, periods, i, trend_data) ==
    LET pr_list == grouped[periods[i]]
        lead_times == LeadTimesOf(pr_list)
        n == IF lead_times = <<>> THEN 1 ELSE Len(lead_times)
        sum == SumSeq(lead_times)
        prev_avg == IF i > 1 /\ periods[i - 1] \in DOMAIN trend_data
                    THEN trend_data[periods[i - 1]].average ELSE 0
        change_rate == IF prev_avg > 0 THEN ChangeRate(sum, n, prev_avg) ELSE ZeroRate
        dates == DatesOf(pr_list)
    IN  [average |-> RoundDiv(sum, n),
         median |-> IF lead_times = <<>> THEN 0
                    ELSE SortedInts(lead_times)[(Len(lead_times) \div 2) + 1],
         min |-> IF lead_times = <<>> THEN 0 ELSE MinSeq(lead_times),
         max |-> IF lead_times = <<>> THEN 0 ELSE MaxSeq(lead_times),
         count |-> Len(pr_list),
         change_rate |-> RoundRate(change_rate),
         trend_direction |-> DetermineTrendDirection(change_rate),
         previous_period |-> IF i > 1 THEN Some(periods[i - 1]) ELSE None,
         period_start |-> IF dates = <<>> THEN None ELSE Some(MinSeq(dates)),
         period_end |-> IF dates = <<>> THEN None ELSE Some(MaxSeq(dates)),
         lead_times |-> lead_times,
         is_empty_period |-> FALSE]

\* trend_data[key] = entry
Put(map, key, entry) == [k \in DOMAIN map \cup {key} |-> IF k = key THEN entry ELSE map[k]]

\* the body of the loop raises: sum() on a lead time that is not a number,
\* min() on creation times of mixed types
TrendEntryRaises(pr_list) ==
    \/ \E i \in 1..Len(HeldLeadTimesOf(pr_list)) : ~IsNumber(HeldLeadTimesOf(pr_list)[i])
    \/ ~Comparable(HeldDatesOf(pr_list))

\* variant of ErrorTrendEntry with the label "error"
ErrorTrendEntryLabelledError(pr_list, error) ==
    [average |-> 0, median |-> 0, min |-> 0, max |-> 0, count |-> Len(pr_list),
     change_rate |-> 0, trend_direction |-> "error", previous_period |-> None,
     period_start |-> None, period_end |-> None, error |-> error,
     is_empty_period |-> FALSE]

\* the entry the except clause stores, with the type of the exception
ErrorTrendEntry(pr_list, error) ==
    [average |-> 0, median |-> 0, min |-> 0, max |-> 0, count |-> Len(pr_list),
     change_rate |-> 0, trend_direction |-> "unknown", previous_period |-> None,
     period_start |-> None, period_end |-> None, error |-> error,
     is_empty_period |-> FALSE]

RECURSIVE TrendLoop(_, _, _, _)
TrendLoop(grouped, periods, i, trend_data) ==
    IF i > Len(periods) THEN trend_data
    ELSE TrendLoop(grouped, periods, i + 1,
                   Put(trend_data, periods[i],
                       IF TrendEntryRaises(grouped[periods[i]])
                       THEN ErrorTrendEntry(grouped[periods[i]], "TypeError")
                       ELSE TrendEntry(grouped, periods, i, trend_data)))

\* LeadTimeAnalyzer.calculate_trend_statistics
TrendStatisticsOf(grouped) ==
    IF DOMAIN grouped = {} THEN EmptyMap
    ELSE TrendLoop(grouped, SortedKeys(DOMAIN grouped), 1, EmptyMap)

\* ------------------------------------------------------------------------
\* LeadTimeAnalyzer: moving averages
\* ------------------------------------------------------------------------

\* f'moving_avg_{window_size}'
MovingAvgKey(window_size) == "moving_avg_" \o ToString(window_size)

\* [trend_data[period]['average'] for period in periods]
AveragesOf(trend_data, periods) ==
    [i \in 1..Len(periods) |-> trend_data[periods[i]].average]

\* entry[key] = value
SetKey(entry, key, value) == (key :> value) @@ entry

\* a / b lies halfway between two integers, b > 0
IsTie(a, b) == 2 * (a % b) = b

\* round(a / b) where the quotient is held as a binary float: a quotient
\* halfway between two integers is represented by a float on either side of
\* it, and up tells the side
RoundFloatDiv(a, b, up) ==
    IF IsTie(a, b) THEN (a \div b) + (IF up THEN 1 ELSE 0) ELSE RoundDiv(a, b)

\* variant of MovingAverageAt whose window starts one position late, so
\* that it holds window_size - 1 values
MovingAverageAtShortWindow(averages, window_size, i, ties_up) ==
    IF i >= window_size
    THEN LET window_values == SubSeq(averages, i - window_size + 2, i)
             n == IF window_values = <<>> THEN 1 ELSE Len(window_values)
         IN  Some(RoundFloatDiv(SumSeq(window_values), n,
                                <<window_size, i>> \in ties_up))
    ELSE None

\* the value stored under the moving-average key of the period at position
\* i (counted from 1) for a window size within 1..len(periods); ties_up
\* holds the pairs (window size, position) whose mean the float rounds up
MovingAverageAt(averages, window_size, i, ties_up) ==
    IF i >= window_size
    THEN LET window_values == SubSeq(averages, i - window_size + 1, i)
         IN  Some(RoundFloatDiv(SumSeq(window_values), Len(window_values),
                                <<window_size, i>> \in ties_up))
    ELSE None

\* the body of the loop over window_sizes for one window size
ApplyWindow(data, periods, averages, window_size, ties_up) ==
    IF window_size <= 0 \/ window_size > Len(periods) THEN data
    ELSE [k \in DOMAIN data |->
            LET i == CHOOSE j \in 1..Len(periods) : periods[j] = k
            IN  SetKey(data[k], MovingAvgKey(window_size),
                       MovingAverageAt(averages, window_size, i, ties_up))]

RECURSIVE MovingAveragesLoop(_, _, _, _, _)
MovingAveragesLoop(data, periods, averages, window_sizes, ties_up) ==
    IF window_sizes = <<>> THEN data
    ELSE MovingAveragesLoop(ApplyWindow(data, periods, averages, Head(window_sizes),
                                        ties_up),
                            periods, averages, Tail(window_sizes), ties_up)

\* LeadTimeAnalyzer.calculate_moving_averages.  The copy it takes of
\* trend_data is shallow: the keys are set on the caller's entries.
MovingAveragesOf(trend_data, window_sizes, ties_up) ==
    IF DOMAIN trend_data = {} \/ window_sizes = <<>> THEN trend_data
    ELSE LET periods == SortedKeys(DOMAIN trend_data)
         IN  MovingAveragesLoop(trend_data, periods, AveragesOf(trend_data, periods),
                                window_sizes, ties_up)

\* the pairs (window size, position) at which the mean of the window is
\* halfway between two hundredths
TiePositions(trend_data, window_sizes) ==
    LET periods == SortedKeys(DOMAIN trend_data)
        averages == AveragesOf(trend_data, periods)
    IN  {wi \in (Range(window_sizes) \cap (1..Len(periods))) \X (1..Len(periods)) :
            /\ wi[2] >= wi[1]
            /\ IsTie(SumSeq(SubSeq(averages, wi[2] - wi[1] + 1, wi[2])), wi[1])}

\* ------------------------------------------------------------------------
\* LeadTimeAnalyzer: several repositories
\* ------------------------------------------------------------------------

\* an element of a list of lead-time records that is None
NoneRecord == [none |-> TRUE]

IsNoneRecord(pr_data) == "none" \in DOMAIN pr_data

\* group_by_period raises on an element that is None: pr_data.get raises
\* AttributeError in the loop body and again in its except clause
GroupRaises(lead_time_data) ==
    \E i \in 1..Len(lead_time_data) : IsNoneRecord(lead_time_data[i])

\* window_sizes of calculate_moving_averages when the caller gives none
DefaultWindowSizes == <<3, 7>>

\* get_trend_data, calculate_trend_statistics and calculate_moving_averages
\* on one list of records; no mean of a window of 3 or 7 hundredths is
\* halfway between two hundredths
TrendPipelineOf(lead_time_data, period) ==
    LET repo_trend == TrendDataOf(lead_time_data, period)
    IN  [trend_data |-> repo_trend,
         trend_statistics |-> MovingAveragesOf(TrendStatisticsOf(repo_trend.grouped_data),
                                               DefaultWindowSizes, {}),
         total_prs |-> Len(lead_time_data),
         total_periods |-> Cardinality(DOMAIN repo_trend.grouped_data)]

\* [pr['lead_time_hours'] for pr in lead_time_data] raises KeyError on a
\* record without the key, and sum() TypeError on a value that is no number
SummaryRaises(lead_time_data) ==
    \E i \in 1..Len(lead_time_data) : ~IsNumber(lead_time_data[i].lead_time_hours)

\* the entry of repository_summary
RepositorySummary(lead_time_data) ==
    LET all_lead_times == [i \in 1..Len(lead_time_data) |->
                              lead_time_data[i].lead_time_hours[1]]
    IN  [total_prs |-> Len(all_lead_times),
         average_lead_time |-> RoundDiv(SumSeq(all_lead_times), Len(all_lead_times)),
         median_lead_time |-> SortedInts(all_lead_times)[(Len(all_lead_times) \div 2) + 1],
         min_lead_time |-> MinSeq(all_lead_times),
         max_lead_time |-> MaxSeq(all_lead_times)]

\* the entry the except clause of the loop over the repositories stores
ErrorTrend(lead_time_data, error) ==
    [error |-> error, total_prs |-> Len(lead_time_data), total_periods |-> 0]

\* the result with no repository processed
EmptyMultiResult(period) ==
    [combined_trend |-> EmptyMap, individual_trends |-> EmptyMap,
     repository_summary |-> EmptyMap, period_type |-> period]

\* the body of the loop over repository_data.items() for the repository
\* repo_id
ProcessRepository(result, repo_id, lead_time_data, period) ==
    IF lead_time_data = <<>> THEN result
    ELSE IF GroupRaises(lead_time_data)
    THEN [result EXCEPT !.individual_trends =
              Put(@, repo_id, ErrorTrend(lead_time_data, "AttributeError"))]
    ELSE IF SummaryRaises(lead_time_data)
    THEN [result EXCEPT !.individual_trends =
              Put(@, repo_id,
                  ErrorTrend(lead_time_data,
                             IF \E i \in 1..Len(lead_time_data) :
                                    IsNone(lead_time_data[i].lead_time_hours)
                             THEN "KeyError" ELSE "TypeError"))]
    ELSE [result EXCEPT
            !.individual_trends = Put(@, repo_id, TrendPipelineOf(lead_time_data, period)),
            !.repository_summary = Put(@, repo_id, RepositorySummary(lead_time_data))]

\* variant of RepositoriesLoop that leaves the loop at the first repository
\* that raises
RECURSIVE RepositoriesLoopStopsAtError(_, _, _, _)
RepositoriesLoopStopsAtError(result, repository_data, i, period) ==
    IF i > Len(repository_data) THEN result
    ELSE LET next == ProcessRepository(result, i, repository_data[i], period)
         IN  IF i \in DOMAIN next.individual_trends
                /\ "error" \in DOMAIN next.individual_trends[i]
             THEN next
             ELSE RepositoriesLoopStopsAtError(next, repository_data, i + 1, period)

\* the loop over repository_data.items(); the i-th repository inserted has
\* the id i
RECURSIVE RepositoriesLoop(_, _, _, _)
RepositoriesLoop(result, repository_data, i, period) ==
    IF i > Len(repository_data) THEN result
    ELSE RepositoriesLoop(ProcessRepository(result, i, repository_data[i], period),
                          repository_data, i + 1, period)

\* all_lead_time_data: the lists of repository_data.values() in a row
\* variant of Concatenated that takes the records of the first repository
\* only
ConcatenatedFirstOnly(repository_data) ==
    IF repository_data = <<>> THEN <<>> ELSE Head(repository_data)

RECURSIVE Concatenated(_)
Concatenated(repository_data) ==
    IF repository_data = <<>> THEN <<>>
    ELSE Head(repository_data) \o Concatenated(Tail(repository_data))

\* variant of CombinedTrend that counts every repository of repository_data
CombinedTrendCountsEveryRepository(repository_data, period) ==
    LET all_lead_time_data == Concatenated(repository_data)
    IN  IF all_lead_time_data = <<>> THEN EmptyMap
        ELSE IF GroupRaises(all_lead_time_data) THEN [error |-> "AttributeError"]
        ELSE LET combined == TrendPipelineOf(all_lead_time_data, period)
             IN  [trend_data |-> combined.trend_data,
                  trend_statistics |-> combined.trend_statistics,
                  total_prs |-> combined.total_prs,
                  total_periods |-> combined.total_periods,
                  total_repositories |->
                      Len(repository_data)]

\* the combined trend of the second try block
CombinedTrend(repository_data, period) ==
    LET all_lead_time_data == Concatenated(repository_data)
    IN  IF all_lead_time_data = <<>> THEN EmptyMap
        ELSE IF GroupRaises(all_lead_time_data) THEN [error |-> "AttributeError"]
        ELSE LET combined == TrendPipelineOf(all_lead_time_data, period)
             IN  [trend_data |-> combined.trend_data,
                  trend_statistics |-> combined.trend_statistics,
                  total_prs |-> combined.total_prs,
                  total_periods |-> combined.total_periods,
                  total_repositories |->
                      Cardinality({i \in 1..Len(repository_data) :
                                      repository_data[i] # <<>>})]

\* LeadTimeAnalyzer.get_multi_repository_trend_data
MultiRepositoryTrendDataOf(repository_data, period) ==
    IF repository_data = <<>> THEN EmptyMultiResult(period)
    ELSE [RepositoriesLoop(EmptyMultiResult(period), repository_data, 1, period)
            EXCEPT !.combined_trend = CombinedTrend(repository_data, period)]

\* ------------------------------------------------------------------------
\* LeadTimeAnalyzer: empty periods
\* ------------------------------------------------------------------------

\* (y1, n1) <= (y2, n2) on tuples
PairLeq(y1, n1, y2, n2) == y1 < y2 \/ (y1 = y2 /\ n1 <= n2)

\* LeadTimeAnalyzer._parse_weekly_period: <<year, week>>, or None for the
\* ValueError it raises
ParseWeeklyPeriod(period_str) ==
    LET parts == Split(period_str, <<ChDash, ChW>>)
    IN  IF Len(parts) < 2 THEN None
        ELSE IF IsNone(ParseInt(parts[1])) \/ IsNone(ParseInt(parts[2])) THEN None
        ELSE Some(<<ParseInt(parts[1])[1], ParseInt(parts[2])[1]>>)

\* start_year, start_month = map(int, period.split('-')): None for the
\* ValueError of a wrong number of parts or of a part that is not a number
ParseMonthlyPeriod(period_str) ==
    LET parts == Split(period_str, <<ChDash>>)
    IN  IF Len(parts) # 2 THEN None
        ELSE IF IsNone(ParseInt(parts[1])) \/ IsNone(ParseInt(parts[2])) THEN None
        ELSE Some(<<ParseInt(parts[1])[1], ParseInt(parts[2])[1]>>)

\* f"{current_year}-W{current_week:02d}"
WeeklyKey(year, week) == DecStr(year) \o <<ChDash, ChW>> \o Pad2(week)

\* f"{current_year}-{current_month:02d}"
MonthlyKey(year, month) == DecStr(year) \o <<ChDash>> \o Pad2(month)

WeeksPerYear == 52

MonthsPerYear == 12

RECURSIVE WeeklyRange(_, _, _, _)
WeeklyRange(year, week, end_year, end_week) ==
    IF ~PairLeq(year, week, end_year, end_week) THEN <<>>
    ELSE <<WeeklyKey(year, week)>> \o
         (IF week + 1 > WeeksPerYear
          THEN WeeklyRange(year + 1, 1, end_year, end_week)
          ELSE WeeklyRange(year, week + 1, end_year, end_week))

RECURSIVE MonthlyRange(_, _, _, _)
MonthlyRange(year, month, end_year, end_month) ==
    IF ~PairLeq(year, month, end_year, end_month) THEN <<>>
    ELSE <<MonthlyKey(year, month)>> \o
         (IF month + 1 > MonthsPerYear
          THEN MonthlyRange(year + 1, 1, end_year, end_month)
          ELSE MonthlyRange(year, month + 1, end_year, end_month))

\* LeadTimeAnalyzer._generate_period_range: [raised, periods]
GeneratePeriodRange(start_period, end_period, period_type) ==
    IF period_type = "weekly"
    THEN LET st == ParseWeeklyPeriod(start_period)
             en == ParseWeeklyPeriod(end_period)
         IN  IF IsNone(st) \/ IsNone(en) THEN [raised |-> TRUE, periods |-> <<>>]
             ELSE [raised |-> FALSE,
                   periods |-> WeeklyRange(st[1][1], st[1][2], en[1][1], en[1][2])]
    ELSE IF period_type = "monthly"
    THEN LET st == ParseMonthlyPeriod(start_period)
             en == ParseMonthlyPeriod(end_period)
         IN  IF IsNone(st) \/ IsNone(en) THEN [raised |-> TRUE, periods |-> <<>>]
             ELSE [raised |-> FALSE,
                   periods |-> MonthlyRange(st[1][1], st[1][2], en[1][1], en[1][2])]
    ELSE [raised |-> FALSE, periods |-> <<>>]

\* the entry handle_empty_periods inserts for a period without data
EmptyPeriodEntry ==
    [average |-> 0, median |-> 0, min |-> 0, max |-> 0, count |-> 0,
     change_rate |-> 0, trend_direction |-> "no_data", previous_period |-> None,
     period_start |-> None, period_end |-> None, lead_times |-> <<>>,
     is_empty_period |-> TRUE]

\* the first loop of handle_empty_periods: the entries of the expected
\* periods that have data, and the inserted entries when fill_gaps is set
CollectPeriods(trend_statistics, expected_periods, fill_gaps) ==
    LET kept == {k \in Range(expected_periods) : k \in DOMAIN trend_statistics \/ fill_gaps}
    IN  [k \in kept |-> IF k \in DOMAIN trend_statistics THEN trend_statistics[k]
                        ELSE EmptyPeriodEntry]

\* the second loop of handle_empty_periods, for the period at position i of
\* the sorted keys of the collected entries
RecalculatedEntry(enhanced, periods, i) ==
    LET entry == enhanced[periods[i]]
    IN  IF i = 1 THEN entry
        ELSE LET current_avg == entry.average
                 prev_avg == enhanced[periods[i - 1]].average
                 change_rate == Rate((current_avg - prev_avg) * 100, prev_avg)
                 updated == IF prev_avg > 0
                            THEN [entry EXCEPT
                                    !.change_rate = RoundRate(change_rate),
                                    !.trend_direction =
                                        IF ~entry.is_empty_period
                                        THEN DetermineTrendDirection(change_rate) ELSE @]
                            ELSE entry
             IN  [updated EXCEPT !.previous_period = Some(periods[i - 1])]

RecalculateChangeRates(enhanced) ==
    LET periods == SortedKeys(DOMAIN enhanced)
    IN  [k \in DOMAIN enhanced |->
            LET i == CHOOSE j \in 1..Len(periods) : periods[j] = k
            IN  RecalculatedEntry(enhanced, periods, i)]

\* LeadTimeAnalyzer.handle_empty_periods: the dictionary it returns
HandleEmptyPeriodsOf(trend_statistics, period_type, fill_gaps) ==
    IF Cardinality(DOMAIN trend_statistics) < 2 THEN trend_statistics
    ELSE LET periods == SortedKeys(DOMAIN trend_statistics)
             range == GeneratePeriodRange(periods[1], periods[Len(periods)], period_type)
         IN  IF range.raised THEN trend_statistics
             ELSE LET enhanced == CollectPeriods(trend_statistics, range.periods, fill_gaps)
                  IN  IF fill_gaps THEN RecalculateChangeRates(enhanced) ELSE enhanced

\* The returned dictionary holds the caller's own entry objects for the
\* periods that have data, so the values the second loop assigns are seen
\* through the caller's dictionary as well.
CallerViewAfter(trend_statistics, result) ==
    [k \in DOMAIN trend_statistics |->
        IF k \in DOMAIN result THEN result[k] ELSE trend_statistics[k]]

\* ------------------------------------------------------------------------
\* StatisticsCalculator
\* ------------------------------------------------------------------------
\* A value of the list is <<n>> for the finite number n, or one of the two
\* non-finite values below.  A result that need not be a whole number is the
\* exact fraction num / den; the standard deviation is held as its square.

NaN == <<0, 0>>

Infinity == <<1, 0>>

\* np.isfinite
IsFinite(v) == Len(v) = 1

Fraction(num, den) == [num |-> num, den |-> den]

\* values_array[np.isfinite(values_array)], as numbers
RECURSIVE CleanValues(_)
CleanValues(values) ==
    IF values = <<>> THEN <<>>
    ELSE (IF IsFinite(Head(values)) THEN <<Head(values)[1]>> ELSE <<>>)
         \o CleanValues(Tail(values))

SumOfSquares(s) == SumSeq([i \in 1..Len(s) |-> s[i] * s[i]])

\* the statistics of no value
ZeroStatistics(count) ==
    [count |-> count, mean |-> Fraction(0, 1), median |-> Fraction(0, 1),
     min |-> 0, max |-> 0, std_dev_squared |-> Fraction(0, 1)]

\* np.median
MedianOf(clean) ==
    LET sorted == SortedInts(clean)
        n == Len(clean)
    IN  IF n % 2 = 1 THEN Fraction(sorted[(n + 1) \div 2], 1)
        ELSE Fraction(sorted[n \div 2] + sorted[(n \div 2) + 1], 2)

\* StatisticsCalculator.calculate_basic_statistics
BasicStatisticsOf(values) ==
    IF values = <<>> THEN ZeroStatistics(0)
    ELSE LET clean == CleanValues(values)
             n == Len(clean)
         IN  IF n = 0 THEN ZeroStatistics(0)
             ELSE [count |-> n,
                   mean |-> Fraction(SumSeq(clean), n),
                   median |-> MedianOf(clean),
                   min |-> MinSeq(clean),
                   max |-> MaxSeq(clean),
                   std_dev_squared |->
                       IF n > 1
                       THEN Fraction(n * SumOfSquares(clean) - SumSeq(clean) * SumSeq(clean),
                                     n * (n - 1))
                       ELSE Fraction(0, 1)]

\* 100 * np.percentile(values, q): linear interpolation between the two
\* values next to position (n - 1) * q / 100 of the sorted values
Percentile100(clean, q) ==
    LET sorted == SortedInts(clean)
        h == (Len(clean) - 1) * q
        lower == (h \div 100) + 1
        upper == IF lower < Len(clean) THEN lower + 1 ELSE lower
    IN  100 * sorted[lower] + (h % 100) * (sorted[upper] - sorted[lower])

\* StatisticsCalculator._remove_outliers_iqr: the bounds are
\* q1 - 1.5 * iqr and q3 + 1.5 * iqr, compared here 200-fold
RemoveOutliersIqr(clean) ==
    LET q1 == Percentile100(clean, 25)
        q3 == Percentile100(clean, 75)
        iqr == q3 - q1
        lower_bound == 2 * q1 - 3 * iqr
        upper_bound == 2 * q3 + 3 * iqr
        Keep(v) == 200 * v >= lower_bound /\ 200 * v <= upper_bound
    IN  SelectSeq(clean, Keep)

\* StatisticsCalculator._remove_outliers_zscore: |x - mean| / std <= 3 with
\* the standard deviation of the whole population; with equal values the
\* score is 0 / 0, not a number, and no comparison with it holds
RemoveOutliersZscore(clean) ==
    IF Len(clean) < 2 THEN clean
    ELSE LET n == Len(clean)
             s == SumSeq(clean)
             spread == n * SumOfSquares(clean) - s * s
             Keep(v) == spread > 0 /\ (n * v - s) * (n * v - s) <= 9 * spread
         IN  SelectSeq(clean, Keep)

\* StatisticsCalculator._remove_outliers_percentile
RemoveOutliersPercentile(clean) ==
    LET p95 == Percentile100(clean, 95)
        Keep(v) == 100 * v <= p95
    IN  SelectSeq(clean, Keep)

\* StatisticsCalculator.remove_outliers
RemoveOutliersOf(values, method) ==
    IF values = <<>> THEN <<>>
    ELSE LET clean == CleanValues(values)
         IN  IF clean = <<>> THEN <<>>
             ELSE IF method = "iqr" THEN RemoveOutliersIqr(clean)
             ELSE IF method = "zscore" THEN RemoveOutliersZscore(clean)
             ELSE IF method = "percentile" THEN RemoveOutliersPercentile(clean)
             ELSE RemoveOutliersIqr(clean)

\* the list remove_outliers returned, handed on as a list of values
AsValues(numbers) == [i \in 1..Len(numbers) |-> <<numbers[i]>>]

\* StatisticsCalculator.get_statistics_with_outlier_removal
StatisticsWithOutlierRemovalOf(values, outlier_method) ==
    IF values = <<>>
    THEN [original_stats |-> BasicStatisticsOf(<<>>),
          filtered_stats |-> BasicStatisticsOf(<<>>),
          outliers_removed |-> 0,
          outlier_method |-> outlier_method]
    ELSE LET filtered_values == RemoveOutliersOf(values, outlier_method)
         IN  [original_stats |-> BasicStatisticsOf(values),
              filtered_stats |-> BasicStatisticsOf(AsValues(filtered_values)),
              outliers_removed |-> Len(values) - Len(filtered_values),
              outlier_method |-> outlier_method]

\* ------------------------------------------------------------------------
\* GitHubAPIClient
\* ------------------------------------------------------------------------
\* What one invocation of the wrapped operation does: it returns a value, or
\* it raises RateLimitError, AuthenticationError, NotFoundError or another
\* exception.
OperationOutcomes == {"success", "rate_limit", "auth", "not_found", "other"}

\* the exception class an outcome raises
ErrorOf(outcome) ==
    IF outcome = "rate_limit" THEN "RateLimitError"
    ELSE IF outcome = "auth" THEN "AuthenticationError"
    ELSE IF outcome = "not_found" THEN "NotFoundError"
    ELSE "Exception"

\* variant of HandleOutcome in which AuthenticationError and NotFoundError
\* are retried like any other exception
HandleOutcomeRetriesAll(outcome, attempt_no, retries, wait) ==
    IF outcome = "success" THEN "return"
    ELSE IF outcome = "rate_limit" THEN (IF wait THEN "continue" ELSE "raise")
    ELSE IF attempt_no < retries THEN "continue"
    ELSE "raise"

\* the try statement of the loop of _retry_operation: what the iteration
\* attempt_no does with the outcome of the operation
HandleOutcome(outcome, attempt_no, retries, wait) ==
    IF outcome = "success" THEN "return"
    ELSE IF outcome = "rate_limit" THEN (IF wait THEN "continue" ELSE "raise")
    ELSE IF outcome \in {"auth", "not_found"} THEN "raise"
    ELSE IF attempt_no < retries THEN "continue"
    ELSE "raise"

\* What func does for one repository in _process_repositories: it returns
\* its list, or it raises NotFoundError, AuthenticationError, RateLimitError,
\* a requests.exceptions.RequestException, or an exception of another class.
RepositoryOutcomes ==
    {"ok", "not_found", "auth", "rate_limit", "request_exception", "other_error"}

\* the loop of _process_repositories from the repository at position i on;
\* results holds the positions of the repositories whose lists were added
RECURSIVE ProcessLoop(_, _, _, _)
ProcessLoop(outcomes, i, single, results) ==
    IF i > Len(outcomes) THEN [raised |-> None, results |-> results]
    ELSE IF outcomes[i] = "ok" THEN ProcessLoop(outcomes, i + 1, single, Append(results, i))
    ELSE IF outcomes[i] = "not_found"
    THEN (IF single THEN [raised |-> Some("NotFoundError"), results |-> <<>>]
          ELSE ProcessLoop(outcomes, i + 1, single, results))
    ELSE IF outcomes[i] = "auth" THEN [raised |-> Some("AuthenticationError"), results |-> <<>>]
    ELSE IF outcomes[i] = "rate_limit" THEN [raised |-> Some("RateLimitError"), results |-> <<>>]
    ELSE IF outcomes[i] = "request_exception"
    THEN (IF single THEN [raised |-> Some("RequestException"), results |-> <<>>]
          ELSE ProcessLoop(outcomes, i + 1, single, results))
    ELSE [raised |-> Some("Exception"), results |-> <<>>]

\* ------------------------------------------------------------------------
\* State
\* ------------------------------------------------------------------------

VARIABLES
    pc,                  \* the step of the analysis the caller has reached
    pull_requests,       \* the list handed to calculate_lead_times
    now,                 \* the reading of datetime.now() the call took, 0 if none
    lead_time_data,      \* the list calculate_lead_times returned
    processed_count,     \* its counters
    error_count,
    period,              \* the period argument of group_by_period
    grouped_data,        \* the dictionary group_by_period returned
    trend_statistics,    \* the dictionary calculate_trend_statistics returned
    original_statistics, \* its value when it was handed to the next operation
    period_type,         \* the arguments of handle_empty_periods
    fill_gaps,
    enhanced_statistics, \* the dictionary handle_empty_periods returned
    change_rate,         \* the argument of _determine_trend_direction
    trend_direction,     \* the label it returned
    window_sizes,        \* the argument of calculate_moving_averages
    moving_averages,     \* the dictionary it returned
    trend_data,          \* the dictionary get_trend_data returned
    repository_data,     \* the argument of get_multi_repository_trend_data:
                         \* the lists of its repositories in insertion order
    multi_result,        \* the dictionary it returned
    range_args,          \* the arguments of _generate_period_range
    range_result,        \* what the call did: [raised, periods]
    key_dates,           \* two dates handed to _get_period_key
    period_keys,         \* the keys it returned for them
    stat_values,         \* the arguments of get_statistics_with_outlier_removal
    outlier_method,
    stat_result,         \* the dictionary it returned
    max_retries,         \* retry_config.max_retries of the client
    should_wait,         \* rate_limit_status.should_wait()
    operation_outcomes,  \* what the invocations of the wrapped operation do
    attempt,             \* the loop variable of _retry_operation
    invocations,         \* how often the operation was invoked
    delay,               \* seconds to sleep before the next attempt
    last_exception,      \* the invocation whose exception was kept, if any
    retry_result,        \* how the call ended: [status, value, error]
    repo_outcomes,       \* what func does for each target repository
    is_single_repo,
    fetch_result         \* how _process_repositories ended

vars == <<pc, pull_requests, now, lead_time_data, processed_count, error_count,
          period, grouped_data, trend_statistics, original_statistics,
          period_type, fill_gaps, enhanced_statistics, change_rate, trend_direction,
          window_sizes, moving_averages, trend_data, repository_data, multi_result,
          range_args, range_result, key_dates, period_keys,
          stat_values, outlier_method, stat_result,
          max_retries, should_wait, operation_outcomes, attempt, invocations, delay,
          last_exception, retry_result, repo_outcomes, is_single_repo, fetch_result>>

calcVars == <<pull_requests, now, lead_time_data, processed_count, error_count>>

trendVars == <<period, grouped_data, trend_statistics, original_statistics,
               period_type, fill_gaps, enhanced_statistics>>

dirVars == <<change_rate, trend_direction>>

movingVars == <<window_sizes, moving_averages>>

\* the variables of the operations that work on a result of the analysis
multiVars == <<repository_data, multi_result>>

rangeVars == <<range_args, range_result>>

keyVars == <<key_dates, period_keys>>

statVars == <<stat_values, outlier_method, stat_result>>

retryVars == <<max_retries, should_wait, operation_outcomes, attempt, invocations, delay,
               last_exception, retry_result>>

fetchVars == <<repo_outcomes, is_single_repo, fetch_result>>

clientVars == <<retryVars, fetchVars>>

otherVars == <<movingVars, trend_data, multiVars, rangeVars, keyVars, statVars, clientVars>>

\* readings of the wall clock
ClockReadings == {At(2024, 4, 1, 0), At(2024, 4, 1, 0) + 1234}

Periods == {"weekly", "monthly", "daily"}

\* a fetch has up to MaxTargetRepos target repositories
MaxTargetRepos == 3

\* the default list, lists with sizes below 1 and above the number of
\* periods, a repeated size and sizes out of order
WindowSizeLists ==
    {<<>>, <<3, 7>>, <<1>>, <<2>>, <<2, 1>>, <<0, 2>>, <<-1, 4>>, <<3, 3>>}

\* LeadTimeAnalyzer.calculate_lead_times
CalculateLeadTimes ==
    /\ pc = "start"
    /\ \E clock \in ClockReadings :
         LET r == CalcLoop(pull_requests, clock)
             reads == \E k \in 1..Len(r.data) : r.data[k].end_type = "open"
         IN  /\ now' = IF reads THEN clock ELSE now
             /\ lead_time_data' = r.data
             /\ processed_count' = r.processed
             /\ error_count' = r.errors
    /\ pc' = "calculated"
    /\ UNCHANGED <<pull_requests, trendVars, dirVars, otherVars>>

\* LeadTimeAnalyzer.group_by_period
GroupByPeriod ==
    /\ pc = "calculated"
    /\ \E p \in Periods :
         /\ period' = p
         /\ grouped_data' = GroupByPeriodOf(lead_time_data, p)
    /\ pc' = "grouped"
    /\ UNCHANGED <<calcVars, trend_statistics, original_statistics, period_type,
                   fill_gaps, enhanced_statistics, dirVars, otherVars>>

\* LeadTimeAnalyzer.calculate_trend_statistics
CalculateTrendStatistics ==
    /\ pc = "grouped"
    /\ trend_statistics' = TrendStatisticsOf(grouped_data)
    /\ pc' = "trended"
    /\ UNCHANGED <<calcVars, period, grouped_data, original_statistics, period_type,
                   fill_gaps, enhanced_statistics, dirVars, otherVars>>

\* LeadTimeAnalyzer.handle_empty_periods
HandleEmptyPeriods ==
    /\ pc = "trended"
    /\ \E pt \in Periods, fg \in BOOLEAN :
         LET result == HandleEmptyPeriodsOf(trend_statistics, pt, fg)
         IN  /\ period_type' = pt
             /\ fill_gaps' = fg
             /\ enhanced_statistics' = result
             /\ original_statistics' = trend_statistics
             /\ trend_statistics' = CallerViewAfter(trend_statistics, result)
    /\ pc' = "filled"
    /\ UNCHANGED <<calcVars, period, grouped_data, dirVars, otherVars>>

\* LeadTimeAnalyzer.calculate_moving_averages on the dictionary
\* calculate_trend_statistics returned
CalculateMovingAverages ==
    /\ pc = "trended"
    /\ \E ws \in WindowSizeLists : \E ties_up \in SUBSET TiePositions(trend_statistics, ws) :
         LET result == MovingAveragesOf(trend_statistics, ws, ties_up)
         IN  /\ window_sizes' = ws
             /\ moving_averages' = result
             /\ original_statistics' = trend_statistics
             /\ trend_statistics' = result
    /\ pc' = "averaged"
    /\ UNCHANGED <<calcVars, period, grouped_data, period_type,
                   fill_gaps, enhanced_statistics, dirVars, trend_data, multiVars,
                   rangeVars, keyVars,
                   statVars, clientVars>>

\* LeadTimeAnalyzer.get_trend_data called on a list of lead-time records.
\* It has no handler of its own: when group_by_period raises, the call
\* raises and the caller gets no result.
GetTrendData ==
    /\ pc = "start"
    /\ \E p \in Periods : period' = p
    /\ IF GroupRaises(lead_time_data)
       THEN /\ pc' = "raised"
            /\ trend_data' = trend_data
       ELSE /\ pc' = "trend_data"
            /\ trend_data' = TrendDataOf(lead_time_data, period')
    /\ UNCHANGED <<calcVars, grouped_data, trend_statistics, original_statistics,
                   period_type, fill_gaps, enhanced_statistics, dirVars, movingVars,
                   multiVars, rangeVars, keyVars,
                   statVars, clientVars>>

\* LeadTimeAnalyzer.calculate_trend_statistics on the grouped_data of the
\* result of get_trend_data
TrendStatisticsOfTrendData ==
    /\ pc = "trend_data"
    /\ trend_statistics' = TrendStatisticsOf(trend_data.grouped_data)
    /\ pc' = "trend_statistics"
    /\ UNCHANGED <<calcVars, period, grouped_data, original_statistics, period_type,
                   fill_gaps, enhanced_statistics, dirVars, otherVars>>

\* LeadTimeAnalyzer.get_multi_repository_trend_data
GetMultiRepositoryTrendData ==
    /\ pc = "start"
    /\ \E p \in Periods :
         /\ period' = p
         /\ multi_result' = MultiRepositoryTrendDataOf(repository_data, p)
    /\ pc' = "multi"
    /\ UNCHANGED <<calcVars, grouped_data, trend_statistics, original_statistics,
                   period_type, fill_gaps, enhanced_statistics, dirVars, movingVars,
                   trend_data, repository_data, rangeVars, keyVars,
                   statVars, clientVars>>

\* LeadTimeAnalyzer._generate_period_range called on its own
GeneratePeriods ==
    /\ pc = "start"
    /\ range_result' = GeneratePeriodRange(range_args.start_period, range_args.end_period,
                                          range_args.period_type)
    /\ pc' = "generated"
    /\ UNCHANGED <<calcVars, trendVars, dirVars, movingVars, trend_data, multiVars,
                   range_args, keyVars,
                   statVars, clientVars>>

\* LeadTimeAnalyzer._get_period_key called on two dates
GetPeriodKeys ==
    /\ pc = "start"
    /\ \E p \in Periods :
         /\ period' = p
         /\ period_keys' = <<GetPeriodKey(key_dates[1], p), GetPeriodKey(key_dates[2], p)>>
    /\ pc' = "keyed"
    /\ UNCHANGED <<calcVars, grouped_data, trend_statistics, original_statistics,
                   period_type, fill_gaps, enhanced_statistics, dirVars, movingVars,
                   trend_data, multiVars, rangeVars, key_dates,
                   statVars, clientVars>>

\* StatisticsCalculator.get_statistics_with_outlier_removal
GetStatisticsWithOutlierRemoval ==
    /\ pc = "start"
    /\ stat_result' = StatisticsWithOutlierRemovalOf(stat_values, outlier_method)
    /\ pc' = "statistics"
    /\ UNCHANGED <<calcVars, trendVars, dirVars, movingVars, trend_data, multiVars,
                   rangeVars, keyVars, stat_values, outlier_method, clientVars>>

\* One iteration of the loop of GitHubAPIClient._retry_operation: the
\* operation is invoked and the try statement handles what it does.  The
\* value returned is the number of the invocation that returned it.  Only a
\* response without an error updates rate_limit_status, and then the call
\* returns, so should_wait is the same in every iteration.
RetryAttempt ==
    /\ retry_result.status = "running"
    /\ attempt <= max_retries
    /\ LET outcome == operation_outcomes[invocations + 1]
           handling == HandleOutcome(outcome, attempt, max_retries, should_wait)
       IN  /\ invocations' = invocations + 1
           /\ last_exception' = IF outcome = "other" THEN Some(invocations + 1)
                                 ELSE last_exception
           /\ retry_result' =
                IF handling = "return"
                THEN [status |-> "returned", value |-> Some(invocations + 1), error |-> None]
                ELSE IF handling = "raise"
                THEN [status |-> "raised", value |-> None, error |-> Some(ErrorOf(outcome))]
                ELSE retry_result
           /\ attempt' = IF handling = "continue" THEN attempt + 1 ELSE attempt
           /\ delay' = IF handling = "continue" /\ outcome = "other"
                       THEN (IF delay * 2 < 60 THEN delay * 2 ELSE 60)
                       ELSE delay
    /\ UNCHANGED <<pc, calcVars, trendVars, dirVars, movingVars, trend_data, multiVars,
                   rangeVars, keyVars, statVars, max_retries, should_wait,
                   operation_outcomes, fetchVars>>

\* The loop of _retry_operation is left after its last iteration: the
\* function has no statement after the loop and returns None.
RetryLoopEnds ==
    /\ retry_result.status = "running"
    /\ attempt > max_retries
    /\ retry_result' = [status |-> "returned", value |-> None, error |-> None]
    /\ UNCHANGED <<pc, calcVars, trendVars, dirVars, movingVars, trend_data, multiVars,
                   rangeVars, keyVars, statVars, max_retries, should_wait,
                   operation_outcomes, attempt, invocations, delay, last_exception,
                   fetchVars>>

\* GitHubAPIClient._process_repositories, called when no request is under
\* way: with owner and repo for the one repository, or without them for the
\* repositories of the settings
ProcessRepositories ==
    /\ retry_result.status \in {"returned", "raised"}
    /\ fetch_result.status = "idle"
    /\ \E single \in BOOLEAN :
         \E outcomes \in IF single THEN [1..1 -> RepositoryOutcomes]
                          ELSE SeqsUpTo(RepositoryOutcomes, MaxTargetRepos) :
           LET r == ProcessLoop(outcomes, 1, single, <<>>)
           IN  /\ is_single_repo' = single
               /\ repo_outcomes' = outcomes
               /\ fetch_result' = [status |-> "done", raised |-> r.raised,
                                    results |-> r.results]
    /\ UNCHANGED <<pc, calcVars, trendVars, dirVars, movingVars, trend_data, multiVars,
                   rangeVars, keyVars, statVars, retryVars>>

\* LeadTimeAnalyzer._determine_trend_direction called on its own
DetermineDirection ==
    /\ pc = "start"
    /\ trend_direction' = DetermineTrendDirection(change_rate)
    /\ pc' = "classified"
    /\ UNCHANGED <<calcVars, trendVars, change_rate, otherVars>>

InitResults ==
    /\ pc = "start"
    /\ now = 0
    /\ processed_count = 0
    /\ error_count = 0
    /\ period = "weekly"
    /\ grouped_data = EmptyMap
    /\ trend_statistics = EmptyMap
    /\ original_statistics = EmptyMap
    /\ period_type = "weekly"
    /\ fill_gaps = TRUE
    /\ enhanced_statistics = EmptyMap

InitAnalysis ==
    /\ InitResults
    /\ lead_time_data = <<>>

NoRange == [start_period |-> <<>>, end_period |-> <<>>, period_type |-> "weekly"]

\* no call of get_statistics_with_outlier_removal is to come
NoValues ==
    /\ stat_values = <<>>
    /\ outlier_method = "iqr"

\* the state of _process_repositories before it is called
NoFetch ==
    /\ repo_outcomes = <<>>
    /\ is_single_repo = FALSE
    /\ fetch_result = [status |-> "idle", raised |-> None, results |-> <<>>]

\* no request is made
NoClient ==
    /\ max_retries = 0
    /\ should_wait = FALSE
    /\ operation_outcomes = <<>>
    /\ attempt = 0
    /\ invocations = 0
    /\ delay = 1
    /\ last_exception = None
    /\ retry_result = [status |-> "idle", value |-> None, error |-> None]
    /\ NoFetch

InitOther ==
    /\ window_sizes = <<>>
    /\ moving_averages = EmptyMap
    /\ trend_data = TrendDataOf(<<>>, "weekly")
    /\ multi_result = EmptyMultiResult("weekly")
    /\ range_result = [raised |-> FALSE, periods |-> <<>>]
    /\ period_keys = <<None, None>>
    /\ stat_result = StatisticsWithOutlierRemovalOf(<<>>, "iqr")

InitRest ==
    /\ InitAnalysis
    /\ InitOther
    /\ repository_data = <<>>
    /\ range_args = NoRange
    /\ key_dates = <<0, 0>>
    /\ NoValues
    /\ NoClient
    /\ change_rate = ZeroRate
    /\ trend_direction = "none"

\* the i-th element of the input carries id i and number 100 + i where the
\* record has these fields
Numbered(ts) ==
    [i \in 1..Len(ts) |->
        [ts[i] EXCEPT !.id = IF IsNone(@) THEN None ELSE Some(i),
                      !.number = IF IsNone(@) THEN None ELSE Some(100 + i)]]

\* ------------------------------------------------------------------------
\* The analysis of a list of pull requests, from the calculation to the
\* handling of empty periods
\* ------------------------------------------------------------------------

MaxPRs == 3

\* a pull request created at the given instant and merged secs seconds later
MergedPR(created, secs) ==
    PR(Some(0), Some(0), Some(TV("iso_z", created)), Some(TV("iso_z", created + secs)),
       None, Some("closed"))

\* 2023-12-26 is in week 2023-W52, 2024-01-02 in 2024-W00, 2024-01-20 in
\* 2024-W02 and 2024-03-05 in 2024-W09.  Lead times of 1.00, 1.01, 24, 0 and
\* -24 hours; no mean of these values that falls in one bucket is a decimal
\* tie that the binary representation of the value rounds differently.
PipelinePRs ==
    {NonePR,
     MergedPR(At(2023, 12, 26, 9), 3600),
     MergedPR(At(2023, 12, 26, 9), 86400),
     MergedPR(At(2024, 1, 2, 9), 3600),
     MergedPR(At(2024, 1, 2, 9), 3636),
     MergedPR(At(2024, 1, 20, 9), 3636),
     MergedPR(At(2024, 3, 5, 9), 0),
     MergedPR(At(2024, 3, 5, 9), 86400),
     MergedPR(At(2024, 3, 5, 9), -86400),
     PR(Some(0), Some(0), Some(TV("db", At(2024, 3, 5, 9))), None, None, Some("open"))}

Init ==
    /\ \E ts \in SeqsUpTo(PipelinePRs, MaxPRs) : pull_requests = Numbered(ts)
    /\ InitRest

Next ==
    \/ CalculateLeadTimes
    \/ GroupByPeriod
    \/ CalculateTrendStatistics
    \/ HandleEmptyPeriods
    \/ CalculateMovingAverages

Spec == Init /\ [][Next]_vars

\* ------------------------------------------------------------------------
\* The calculation alone, over every shape of input record
\* ------------------------------------------------------------------------

MaxCalcPRs == 2

TCreated == At(2024, 1, 10, 10)

\* a merge before the creation, and one 28 hours after it
MergedChoices ==
    {None, Some(TV("garbage", 0)), Some(TV("iso_z", At(2024, 1, 9, 10))),
     Some(TV("iso_z", At(2024, 1, 11, 14)))}

\* a close 8 hours 0 minutes 37 seconds after the creation
ClosedChoices ==
    {None, Some(TV("empty", 0)), Some(TV("iso_frac_z", At(2024, 1, 10, 18))),
     Some(TV("db_frac", At(2024, 1, 10, 18) + 37))}

StateChoices == {Some("open"), Some("closed")}

GoodCreated == Some(TV("iso_z", TCreated))

GoodMerged == Some(TV("iso_z", At(2024, 1, 11, 14)))

CalcPRs ==
    {NonePR, NotADictPR}
    \cup {PR(None, Some(7), GoodCreated, GoodMerged, None, Some("closed")),
          PR(Some(1), None, GoodCreated, GoodMerged, None, Some("closed")),
          PR(Some(1), Some(7), None, GoodMerged, None, Some("closed")),
          PR(Some(1), Some(7), GoodCreated, GoodMerged, None, None)}
    \cup {PR(Some(2), Some(8), Some(TV(sh, TCreated)), GoodMerged, None, Some("closed")) :
            sh \in {"db", "iso_no_z", "garbage", "empty", "blank", "datetime"}}
    \cup {PR(Some(3), Some(9), GoodCreated, m, c, st) :
            m \in MergedChoices, c \in ClosedChoices, st \in StateChoices}
    \cup {PR(Some(4), Some(10), GoodCreated, Some(TV("datetime", At(2024, 1, 11, 14))),
             Some(TV("db", At(2024, 1, 10, 18))), Some("closed"))}

InitCalc ==
    /\ \E ts \in SeqsUpTo(CalcPRs, MaxCalcPRs) : pull_requests = Numbered(ts)
    /\ InitRest

NextCalc == CalculateLeadTimes

SpecCalc == InitCalc /\ [][NextCalc]_vars

\* ------------------------------------------------------------------------
\* The classification of a change rate alone
\* ------------------------------------------------------------------------

\* whole percentages -MaxWhole..MaxWhole, and the rates within MaxEps
\* ten-thousandths of a percent of -5, 0 and 5
MaxWhole == 60

MaxEps == 10

ChangeRates ==
    {Rate(n, 1) : n \in -MaxWhole..MaxWhole}
    \cup {Rate(k * 10000 + e, 10000) : k \in {-5, 0, 5}, e \in -MaxEps..MaxEps}

InitDirection ==
    /\ InitAnalysis
    /\ pull_requests = <<>>
    /\ InitOther
    /\ repository_data = <<>>
    /\ range_args = NoRange
    /\ key_dates = <<0, 0>>
    /\ NoValues
    /\ NoClient
    /\ change_rate \in ChangeRates
    /\ trend_direction = "none"

NextDirection == DetermineDirection

SpecDirection == InitDirection /\ [][NextDirection]_vars

\* ------------------------------------------------------------------------
\* The trend data of a list of lead-time records handed in by the caller
\* ------------------------------------------------------------------------

MaxRecords == 3

\* a lead-time record with the given values under 'created_at' and
\* 'lead_time_hours'
LeadTimeRecord(created_at, lead_time_hours) ==
    [pr_id |-> 1, pr_number |-> 101, created_at |-> created_at,
     end_time |-> At(2024, 2, 1, 0), end_type |-> "merged",
     lead_time_hours |-> lead_time_hours, lead_time_days |-> 0, state |-> "closed"]

\* 2024-01-10, -11 and -12 are in 2024-W01 and 2024-01-20 in 2024-W02 (the
\* Monday of its week is the 15th); lead times of 1.00 and 2.50 hours.  Records without a
\* creation time, with one held as text, with text that is no date, without
\* a lead time and with a lead time that is not a number, and an element
\* that is None.  2024-01-24 is in 2024-W03; its lead time of 630.02 hours
\* is 5.0033 percent above the 600.00 hours of a record of 2024-W02.
TrendRecords ==
    {LeadTimeRecord(Some(TV("datetime", At(2024, 1, 10, 9))), Some(100)),
     LeadTimeRecord(Some(TV("datetime", At(2024, 1, 11, 9))), Some(250)),
     LeadTimeRecord(Some(TV("datetime", At(2024, 1, 20, 9))), Some(100)),
     LeadTimeRecord(Some(TV("iso_z", At(2024, 1, 12, 9))), Some(250)),
     LeadTimeRecord(Some(TV("garbage", 0)), Some(100)),
     LeadTimeRecord(None, Some(100)),
     LeadTimeRecord(Some(TV("datetime", At(2024, 1, 10, 9))), None),
     LeadTimeRecord(Some(TV("datetime", At(2024, 1, 20, 9))), NotANumber),
     LeadTimeRecord(Some(TV("datetime", At(2024, 1, 20, 9))), Some(60000)),
     LeadTimeRecord(Some(TV("datetime", At(2024, 1, 24, 9))), Some(63002)),
     NoneRecord}

InitTrendData ==
    /\ InitResults
    /\ InitOther
    /\ pull_requests = <<>>
    /\ lead_time_data \in SeqsUpTo(TrendRecords, MaxRecords)
    /\ repository_data = <<>>
    /\ range_args = NoRange
    /\ key_dates = <<0, 0>>
    /\ NoValues
    /\ NoClient
    /\ change_rate = ZeroRate
    /\ trend_direction = "none"

NextTrendData == GetTrendData \/ TrendStatisticsOfTrendData

SpecTrendData == InitTrendData /\ [][NextTrendData]_vars

\* ------------------------------------------------------------------------
\* The trend data of several repositories
\* ------------------------------------------------------------------------

MaxRepositories == 2

MaxRepositoryRecords == 2

\* records of 2024-W01 and of 2024-W02, a record of 2024-W01 whose creation
\* time is held as text, a record without a creation time, one without a
\* lead time, and an element that is None
RepositoryRecords ==
    {LeadTimeRecord(Some(TV("datetime", At(2024, 1, 10, 9))), Some(100)),
     LeadTimeRecord(Some(TV("datetime", At(2024, 1, 20, 9))), Some(250)),
     LeadTimeRecord(Some(TV("iso_z", At(2024, 1, 11, 9))), Some(250)),
     LeadTimeRecord(None, Some(100)),
     LeadTimeRecord(Some(TV("datetime", At(2024, 1, 10, 9))), None),
     NoneRecord}

InitMulti ==
    /\ InitAnalysis
    /\ InitOther
    /\ range_args = NoRange
    /\ key_dates = <<0, 0>>
    /\ NoValues
    /\ NoClient
    /\ pull_requests = <<>>
    /\ repository_data \in
         SeqsUpTo(SeqsUpTo(RepositoryRecords, MaxRepositoryRecords), MaxRepositories)
    /\ change_rate = ZeroRate
    /\ trend_direction = "none"

NextMulti == GetMultiRepositoryTrendData

SpecMulti == InitMulti /\ [][NextMulti]_vars

\* ------------------------------------------------------------------------
\* The range of periods between two period keys
\* ------------------------------------------------------------------------

\* creation times from December 2023 to January 2025; the first of January
\* 2024 is a Monday
RangeDates ==
    {At(2023, 11, 15, 9), At(2023, 12, 20, 9), At(2023, 12, 28, 9), At(2024, 1, 3, 9),
     At(2024, 1, 10, 9), At(2024, 2, 14, 9), At(2024, 12, 31, 9), At(2025, 1, 8, 9)}

\* the keys group_by_period files these creation times under
PeriodKeys(pt) == {GetPeriodKey(d, pt)[1] : d \in RangeDates}

InitRange ==
    /\ InitAnalysis
    /\ InitOther
    /\ pull_requests = <<>>
    /\ repository_data = <<>>
    /\ \E pt \in Periods, first, last \in PeriodKeys("weekly") \cup PeriodKeys("monthly") :
         range_args = [start_period |-> first, end_period |-> last, period_type |-> pt]
    /\ key_dates = <<0, 0>>
    /\ NoValues
    /\ NoClient
    /\ change_rate = ZeroRate
    /\ trend_direction = "none"

NextRange == GeneratePeriods

SpecRange == InitRange /\ [][NextRange]_vars

\* ------------------------------------------------------------------------
\* The period keys of two dates
\* ------------------------------------------------------------------------

\* the days looked at: KeySpan days from Monday 18 December 2023 and from
\* Monday 23 December 2024, each at its first and at its last second
KeySpan == 21

KeyInstants ==
    {start + d * SecondsPerDay + s :
        start \in {At(2023, 12, 18, 0), At(2024, 12, 23, 0)},
        d \in 0..(KeySpan - 1),
        s \in {0, SecondsPerDay - 1}}

InitKeys ==
    /\ InitAnalysis
    /\ InitOther
    /\ pull_requests = <<>>
    /\ repository_data = <<>>
    /\ range_args = NoRange
    /\ key_dates \in KeyInstants \X KeyInstants
    /\ NoValues
    /\ NoClient
    /\ change_rate = ZeroRate
    /\ trend_direction = "none"

NextKeys == GetPeriodKeys

SpecKeys == InitKeys /\ [][NextKeys]_vars

\* ------------------------------------------------------------------------
\* Statistics with outlier removal
\* ------------------------------------------------------------------------

\* the lists have up to MaxValues values
MaxValues == 4

\* the values of the lists: lead times in hours, one of them far from the
\* others, and the values that are not finite
StatValues == {<<1>>, <<2>>, <<3>>, <<100>>, NaN, Infinity}

OutlierMethods == {"iqr", "zscore", "percentile", "mad"}

InitStats ==
    /\ InitAnalysis
    /\ InitOther
    /\ pull_requests = <<>>
    /\ repository_data = <<>>
    /\ range_args = NoRange
    /\ key_dates = <<0, 0>>
    /\ stat_values \in SeqsUpTo(StatValues, MaxValues)
    /\ NoClient
    /\ outlier_method \in OutlierMethods
    /\ change_rate = ZeroRate
    /\ trend_direction = "none"

NextStats == GetStatisticsWithOutlierRemoval

SpecStats == InitStats /\ [][NextStats]_vars

\* ------------------------------------------------------------------------
\* The requests of the API client
\* ------------------------------------------------------------------------

\* max_retries is at most MaxRetries
MaxRetries == 2

InitClient ==
    /\ InitAnalysis
    /\ InitOther
    /\ pull_requests = <<>>
    /\ repository_data = <<>>
    /\ range_args = NoRange
    /\ key_dates = <<0, 0>>
    /\ NoValues
    /\ change_rate = ZeroRate
    /\ trend_direction = "none"
    /\ max_retries \in 0..MaxRetries
    /\ should_wait \in BOOLEAN
    /\ operation_outcomes \in [1..(max_retries + 1) -> OperationOutcomes]
    /\ attempt = 0
    /\ invocations = 0
    /\ delay = 1
    /\ last_exception = None
    /\ retry_result = [status |-> "running", value |-> None, error |-> None]
    /\ NoFetch

NextClient == RetryAttempt \/ RetryLoopEnds \/ ProcessRepositories

SpecClient == InitClient /\ [][NextClient]_vars

\* ------------------------------------------------------------------------
\* Properties of the calculation
\* ------------------------------------------------------------------------

\* the two timestamp shapes the calculation accepts
AcceptedShape(o) == ~IsNone(o) /\ o[1].shape \in {"iso_z", "db", "db_frac"}

HasRequiredFields(pr) ==
    /\ pr.kind = "dict"
    /\ \A f \in {"id", "number", "created_at", "state"} : pr[f] # None

EndResolvable(pr) ==
    AcceptedShape(pr.merged_at) \/ AcceptedShape(pr.closed_at) \/ pr.state = Some("open")

Processable(pr) == HasRequiredFields(pr) /\ AcceptedShape(pr.created_at) /\ EndResolvable(pr)

ProcessableInputs == SelectSeq(pull_requests, Processable)

\* the input record a lead-time record was computed from
SourceOf(rec) == CHOOSE pr \in Range(pull_requests) : pr.kind = "dict" /\ pr.id = Some(rec.pr_id)

\* C2: calculate has per-item isolation: the call is enabled on every input
\* and returns exactly one lead-time record per processable input record, in
\* input order; everything else is skipped and counted as an error, and a
\* skipped record never stops the records after it.
C2_PerItemIsolation ==
    /\ pc = "start" => ENABLED CalculateLeadTimes
    /\ pc = "calculated" =>
         /\ Len(lead_time_data) = Len(ProcessableInputs)
         /\ \A k \in 1..Len(lead_time_data) :
              /\ lead_time_data[k].pr_id = ProcessableInputs[k].id[1]
              /\ lead_time_data[k].pr_number = ProcessableInputs[k].number[1]
              /\ lead_time_data[k].created_at = Some(TV("datetime", ProcessableInputs[k].created_at[1].t))
         /\ processed_count = Len(ProcessableInputs)
         /\ error_count = Len(pull_requests) - Len(ProcessableInputs)

\* an invalid record in front of a valid one, and the valid one was processed
C2_Witness ==
    /\ pc = "calculated"
    /\ Len(pull_requests) = 2
    /\ ~Processable(pull_requests[1])
    /\ Processable(pull_requests[2])
    /\ Len(lead_time_data) = 1
    /\ lead_time_data[1].pr_id = 2

\* C3: the end time is the merge timestamp when it parses, else the close
\* timestamp when it parses, else the clock reading when the state is open;
\* a valid record with none of the three yields no lead-time record.
C3_EndTimePrecedence ==
    pc = "calculated" =>
      /\ \A k \in 1..Len(lead_time_data) :
           LET rec == lead_time_data[k]
               pr == SourceOf(rec)
           IN  IF AcceptedShape(pr.merged_at)
               THEN rec.end_type = "merged" /\ rec.end_time = pr.merged_at[1].t
               ELSE IF AcceptedShape(pr.closed_at)
               THEN rec.end_type = "closed" /\ rec.end_time = pr.closed_at[1].t
               ELSE /\ pr.state = Some("open")
                    /\ rec.end_type = "open"
                    /\ rec.end_time = now
      /\ \A i \in 1..Len(pull_requests) :
           LET pr == pull_requests[i]
           IN  (HasRequiredFields(pr) /\ AcceptedShape(pr.created_at))
                 => ( (\E k \in 1..Len(lead_time_data) : lead_time_data[k].pr_id = i)
                      <=> EndResolvable(pr) )

\* an unparseable merge timestamp fell through to the close timestamp, and a
\* closed record without any parseable end timestamp was dropped
C3_Witness ==
    /\ pc = "calculated"
    /\ Len(pull_requests) = 2
    /\ pull_requests[1].merged_at = Some(TV("garbage", 0))
    /\ pull_requests[1].closed_at = Some(TV("db_frac", At(2024, 1, 10, 18) + 37))
    /\ pull_requests[2] = PR(Some(2), Some(102), GoodCreated, Some(TV("garbage", 0)),
                             Some(TV("empty", 0)), Some("closed"))
    /\ Len(lead_time_data) = 1
    /\ lead_time_data[1].end_type = "closed"
    /\ lead_time_data[1].lead_time_hours = Some(801)

\* C4: every merged or closed lead-time record has end_time >= created_at and
\* lead_time_hours >= 0.
C4_NonNegativeLeadTime ==
    \A k \in 1..Len(lead_time_data) :
        lead_time_data[k].end_type \in {"merged", "closed"}
          => /\ lead_time_data[k].end_time >= lead_time_data[k].created_at[1].t
             /\ lead_time_data[k].lead_time_hours[1] >= 0

\* ------------------------------------------------------------------------
\* Properties of the grouping
\* ------------------------------------------------------------------------

\* the places (key, position) of grouped_data that hold the record rec
PlacesOf(rec) ==
    {kj \in UNION {{<<k, j>> : j \in 1..Len(grouped_data[k])} : k \in DOMAIN grouped_data} :
        grouped_data[kj[1]][kj[2]] = rec}

IsPredecessor(map, p, k) ==
    /\ p \in DOMAIN map
    /\ StrLess(p, k)
    /\ \A j \in DOMAIN map : ~(StrLess(p, j) /\ StrLess(j, k))

IsFirst(map, k) == \A j \in DOMAIN map : ~StrLess(j, k)

NoNegativeLeadTime ==
    \A i \in 1..Len(lead_time_data) : lead_time_data[i].lead_time_hours[1] >= 0

\* round(((sc / nc - sp / np) / (sp / np)) * 100, 2): the change rate between
\* the means of two buckets with sums sc, sp and sizes nc, np, sp > 0
RateOfMeans(sc, nc, sp, np) == RoundDiv((sc * np - sp * nc) * 10000, sp * nc)

\* C5: for every period but the first, change_rate is
\* ((current_average - previous_average) / previous_average) * 100, to two
\* decimals, of the average lead times of the period and of the preceding key
\* in sorted order, 0.0 when the previous average is 0, and previous_period is
\* that preceding key.  (Stated for inputs without negative lead times, which
\* is where the statement does not depend on C4.)
C5_ChangeRateOfAverages ==
    (pc = "trended" /\ NoNegativeLeadTime) =>
      \A k \in DOMAIN trend_statistics : \A p \in DOMAIN trend_statistics :
        IsPredecessor(trend_statistics, p, k) =>
          LET cur == LeadTimesOf(grouped_data[k])
              prev == LeadTimesOf(grouped_data[p])
          IN  /\ trend_statistics[k].previous_period = Some(p)
              /\ trend_statistics[k].change_rate =
                   IF SumSeq(prev) = 0 THEN 0
                   ELSE RateOfMeans(SumSeq(cur), Len(cur), SumSeq(prev), Len(prev))

FilledGaps ==
    /\ pc = "filled"
    /\ fill_gaps
    /\ period_type = NormalizePeriod(period)
    /\ Cardinality(DOMAIN original_statistics) >= 2

ExpectedPeriods ==
    LET periods == SortedKeys(DOMAIN original_statistics)
    IN  Range(GeneratePeriodRange(periods[1], periods[Len(periods)], period_type).periods)

\* C8: with fill_gaps the result has exactly the periods of the range between
\* the smallest and the largest input key: the periods of the range missing
\* from the input are added, no other key is added, and every originally
\* present period keeps its average and count.
C8_FillReturnsRange ==
    FilledGaps =>
      /\ DOMAIN enhanced_statistics = ExpectedPeriods
      /\ DOMAIN enhanced_statistics = DOMAIN original_statistics \cup ExpectedPeriods
      /\ \A k \in DOMAIN original_statistics :
           /\ k \in DOMAIN enhanced_statistics
           /\ enhanced_statistics[k].average = original_statistics[k].average
           /\ enhanced_statistics[k].count = original_statistics[k].count

\* C9: every inserted period has average, median, min, max, count and
\* change_rate 0, trend_direction no_data and the empty-period marker.
C9_GapsAreZero ==
    FilledGaps =>
      \A k \in DOMAIN enhanced_statistics \ DOMAIN original_statistics :
        /\ enhanced_statistics[k].average = 0
        /\ enhanced_statistics[k].median = 0
        /\ enhanced_statistics[k].min = 0
        /\ enhanced_statistics[k].max = 0
        /\ enhanced_statistics[k].count = 0
        /\ enhanced_statistics[k].change_rate = 0
        /\ enhanced_statistics[k].trend_direction = "no_data"
        /\ enhanced_statistics[k].is_empty_period

\* ((cur - prev) / prev) * 100 for averages in hundredths of hours, prev > 0
RateBetween(cur, prev) == Rate((cur - prev) * 100, prev)

\* C10: every originally present period but the first has change_rate and
\* trend_direction recomputed against its predecessor in the gap-filled
\* timeline: 0.0 and stable when the predecessor's average is 0, else the
\* change rate between the two averages and its classification; inserted
\* periods stay no_data.  (Stated for inputs without negative lead times,
\* which is where the statement does not depend on C4.)
C10_RecomputedAgainstPredecessor ==
    (FilledGaps /\ NoNegativeLeadTime) =>
      \A k \in DOMAIN enhanced_statistics : \A p \in DOMAIN enhanced_statistics :
        IsPredecessor(enhanced_statistics, p, k) =>
          IF k \notin DOMAIN original_statistics
          THEN enhanced_statistics[k].trend_direction = "no_data"
          ELSE IF enhanced_statistics[p].average = 0
          THEN /\ enhanced_statistics[k].change_rate = 0
               /\ enhanced_statistics[k].trend_direction = "stable"
          ELSE LET r == RateBetween(enhanced_statistics[k].average,
                                    enhanced_statistics[p].average)
               IN  /\ enhanced_statistics[k].change_rate = RoundRate(r)
                   /\ enhanced_statistics[k].trend_direction =
                        IF r.num < -5 * r.den THEN "improving"
                        ELSE IF r.num > 5 * r.den THEN "worsening" ELSE "stable"

\* C11: with fill_gaps false on at least two periods the result is the
\* input: the same periods, every field of every entry unchanged, whatever
\* the period type.
C11_NoFillReturnsInput ==
    (pc = "filled" /\ ~fill_gaps /\ Cardinality(DOMAIN original_statistics) >= 2)
        => enhanced_statistics = original_statistics

\* ------------------------------------------------------------------------
\* Properties of the moving averages
\* ------------------------------------------------------------------------

\* the window sizes a key is looked for
WindowSizesLookedAt == -1..8

PeriodsAveraged == SortedKeys(DOMAIN moving_averages)

\* the sum of the period averages at positions i - w + 1 .. i, counted from 1
WindowSum(w, i) ==
    SumSeq([j \in 1..w |-> moving_averages[PeriodsAveraged[i - w + j]].average])

\* moving_avg_<w> is set as described on every period, the value at the
\* positions with a full window being v where Value(w, i, v) holds
MovingAveragesAre(Value(_, _, _)) ==
    pc = "averaged" =>
      \A w \in WindowSizesLookedAt : \A i \in 1..Len(PeriodsAveraged) :
        LET entry == moving_averages[PeriodsAveraged[i]]
            key == MovingAvgKey(w)
        IN  IF w \in Range(window_sizes) /\ 1 <= w /\ w <= Len(PeriodsAveraged)
            THEN /\ key \in DOMAIN entry
                 /\ IF i >= w
                    THEN /\ ~IsNone(entry[key])
                         /\ Value(w, i, entry[key][1])
                    ELSE IsNone(entry[key])
            ELSE key \notin DOMAIN entry

ExactMean(w, i, v) == w * v = WindowSum(w, i)

MeanRoundedToHundredths(w, i, v) ==
    /\ 2 * (w * v - WindowSum(w, i)) <= w
    /\ 2 * (WindowSum(w, i) - w * v) <= w

\* C12 as stated: for each window size w within 1..number of periods the
\* entry at sorted position i carries under moving_avg_<w> the arithmetic
\* mean of the period averages at positions i-w+1..i when the window is
\* full and an absent value before; a window size below 1 or above the
\* number of periods adds no key.
C12_MovingAverageIsMean == MovingAveragesAre(ExactMean)

\* C12, amended: the value is the arithmetic mean rounded to two decimals
\* (it differs from the mean by at most half a hundredth of an hour).
C12_MovingAverageIsRoundedMean == MovingAveragesAre(MeanRoundedToHundredths)

\* a window of two on three periods or more: the first period has the
\* absent value and a later one has a mean that needed rounding
C12_Witness ==
    /\ pc = "averaged"
    /\ 2 \in Range(window_sizes)
    /\ Len(PeriodsAveraged) >= 3
    /\ IsNone(moving_averages[PeriodsAveraged[1]][MovingAvgKey(2)])
    /\ \E i \in 2..Len(PeriodsAveraged) :
         2 * moving_averages[PeriodsAveraged[i]][MovingAvgKey(2)][1] # WindowSum(2, i)

\* ------------------------------------------------------------------------
\* Properties of the period statistics and the trend data
\* ------------------------------------------------------------------------

\* the period statistics of a result of get_trend_data and the buckets they
\* were computed from
Buckets == trend_data.grouped_data

Stats == trend_data.period_statistics

Failed(k) == "error" \in DOMAIN Stats[k]

\* the buckets without the periods whose computation failed
BucketsThatWork == [k \in {j \in DOMAIN Buckets : ~Failed(j)} |-> Buckets[k]]

\* C15: the period statistics have an entry for exactly the keys of the
\* bucket map, each with the number of records of its bucket as count, also
\* when no record of the bucket has a lead time and when the computation of
\* the period failed; a failed period has a zeroed entry with the error
\* flag, and the entries of the other periods are what they are without it.
C15_PeriodStatisticsPerBucket ==
    pc = "trend_data" =>
      /\ DOMAIN Stats = DOMAIN Buckets
      /\ \A k \in DOMAIN Buckets :
           /\ Stats[k].count = Len(Buckets[k])
           /\ Failed(k) =>
                /\ Stats[k].average_lead_time_hours = 0
                /\ Stats[k].average_lead_time_days = 0
                /\ Stats[k].total_lead_time_hours = 0
                /\ IsNone(Stats[k].period_start)
                /\ IsNone(Stats[k].period_end)
           /\ ~Failed(k) => Stats[k] = PeriodStatisticsOf(BucketsThatWork)[k]

\* a period that failed holding two records next to a period that did not
C15_Witness ==
    /\ pc = "trend_data"
    /\ \E k, j \in DOMAIN Buckets :
         /\ Failed(k) /\ Len(Buckets[k]) = 2
         /\ ~Failed(j) /\ Stats[j].average_lead_time_hours > 0

\* C16: the result of get_trend_data is consistent: total_prs is the number
\* of input records, total_periods the number of buckets of grouped_data,
\* and period_statistics has exactly one entry per bucket.
C16_TrendDataConsistent ==
    pc = "trend_data" =>
      /\ trend_data.total_prs = Len(lead_time_data)
      /\ trend_data.total_periods = Cardinality(DOMAIN trend_data.grouped_data)
      /\ DOMAIN trend_data.period_statistics = DOMAIN trend_data.grouped_data

\* ------------------------------------------------------------------------
\* Properties of the trend data of several repositories
\* ------------------------------------------------------------------------

Individual == multi_result.individual_trends

Summary == multi_result.repository_summary

Combined == multi_result.combined_trend

IsErrorEntry(entry) == "error" \in DOMAIN entry

\* processing the repository raises: an element that is None, or a record
\* without a numeric lead time
RepositoryFails(i) ==
    /\ repository_data[i] # <<>>
    /\ \/ GroupRaises(repository_data[i])
       \/ SummaryRaises(repository_data[i])

\* the result of the call on the repository i alone
Alone(i) == MultiRepositoryTrendDataOf(<<repository_data[i]>>, period)

\* C13: a repository whose processing fails has an error entry in
\* individual_trends; every other repository with records has the
\* individual trend and the summary it has when it is processed alone; a
\* failure of the combined trend leaves a single error entry as
\* combined_trend and the individual trends as they are.
C13_FailureIsolated ==
    pc = "multi" =>
      /\ \A i \in 1..Len(repository_data) :
           /\ RepositoryFails(i) =>
                /\ i \in DOMAIN Individual
                /\ IsErrorEntry(Individual[i])
                /\ i \notin DOMAIN Summary
           /\ (repository_data[i] # <<>> /\ ~RepositoryFails(i)) =>
                /\ i \in DOMAIN Individual /\ i \in DOMAIN Summary
                /\ Individual[i] = Alone(i).individual_trends[1]
                /\ Summary[i] = Alone(i).repository_summary[1]
      /\ GroupRaises(Concatenated(repository_data)) =>
           /\ DOMAIN Combined = {"error"}
           /\ \A i \in 1..Len(repository_data) :
                (repository_data[i] # <<>>) => i \in DOMAIN Individual

\* a repository that fails before one that does not, with a combined trend
\* that failed
C13_Witness ==
    /\ pc = "multi"
    /\ Len(repository_data) = 2
    /\ RepositoryFails(1) /\ IsErrorEntry(Individual[1])
    /\ repository_data[2] # <<>> /\ ~RepositoryFails(2)
    /\ Individual[2].total_periods = 2
    /\ IsErrorEntry(Combined)

RepositoriesWithRecords == {i \in 1..Len(repository_data) : repository_data[i] # <<>>}

\* the repositories that have records, in their order
RECURSIVE WithRecordsOnly(_)
WithRecordsOnly(repositories) ==
    IF repositories = <<>> THEN <<>>
    ELSE (IF Head(repositories) = <<>> THEN <<>> ELSE <<Head(repositories)>>)
         \o WithRecordsOnly(Tail(repositories))

\* C14: a repository without records is in neither individual_trends nor
\* repository_summary and adds nothing to the combined trend; the combined
\* trend, which there is when some repository has a record and the
\* computation did not fail, has the number of repositories with a record
\* as total_repositories and the sum of the record counts of all
\* repositories as total_prs.
C14_EmptyRepositoriesOmitted ==
    pc = "multi" =>
      /\ \A i \in 1..Len(repository_data) :
           repository_data[i] = <<>> => (i \notin DOMAIN Individual /\ i \notin DOMAIN Summary)
      /\ DOMAIN Individual = RepositoriesWithRecords
      /\ IF RepositoriesWithRecords = {} THEN Combined = EmptyMap
         ELSE IF GroupRaises(Concatenated(repository_data)) THEN IsErrorEntry(Combined)
         ELSE /\ Combined.total_repositories = Cardinality(RepositoriesWithRecords)
              /\ Combined.total_prs =
                   SumSeq([i \in 1..Len(repository_data) |-> Len(repository_data[i])])
              /\ Combined = MultiRepositoryTrendDataOf(WithRecordsOnly(repository_data),
                                                       period).combined_trend

\* a repository without records before one with two records of two periods
C14_Witness ==
    /\ pc = "multi"
    /\ Len(repository_data) = 2
    /\ repository_data[1] = <<>>
    /\ "total_repositories" \in DOMAIN Combined
    /\ Combined.total_repositories = 1
    /\ Combined.total_prs = 2
    /\ Combined.total_periods = 2

\* ------------------------------------------------------------------------
\* Properties of the range of periods
\* ------------------------------------------------------------------------

\* the key that follows the key k: the next month, with carry from 12 to 01
\* of the next year, or the next week, with 52 followed by 01 of the next
\* year
IsNextPeriod(k, next, pt) ==
    IF pt = "monthly"
    THEN \E y \in 2023..2025, m \in 1..12 :
           /\ k = MonthlyKey(y, m)
           /\ next = IF m = 12 THEN MonthlyKey(y + 1, 1) ELSE MonthlyKey(y, m + 1)
    ELSE \E y \in 2023..2025, w \in 0..53 :
           /\ k = WeeklyKey(y, w)
           /\ next = IF w = 52 THEN WeeklyKey(y + 1, 1) ELSE WeeklyKey(y, w + 1)

StrLeq(a, b) == a = b \/ StrLess(a, b)

\* C17: between a first and a last key of the granularity, first <= last,
\* the range is strictly increasing, starts with the first key, ends with
\* the last key and goes from each key to the one that follows it.
C17_RangeCoversEndpoints ==
    (/\ pc = "generated"
     /\ range_args.period_type \in {"weekly", "monthly"}
     /\ range_args.start_period \in PeriodKeys(range_args.period_type)
     /\ range_args.end_period \in PeriodKeys(range_args.period_type)
     /\ StrLeq(range_args.start_period, range_args.end_period))
    => LET periods == range_result.periods
       IN  /\ ~range_result.raised
           /\ periods # <<>>
           /\ periods[1] = range_args.start_period
           /\ periods[Len(periods)] = range_args.end_period
           /\ \A i \in 1..(Len(periods) - 1) :
                /\ StrLess(periods[i], periods[i + 1])
                /\ IsNextPeriod(periods[i], periods[i + 1], range_args.period_type)

\* ------------------------------------------------------------------------
\* Properties of the period keys
\* ------------------------------------------------------------------------

\* the number of the Monday-to-Sunday week an instant is in, counted from
\* the week that ends on 1 January 2023, a Sunday
WeekNumber(t) == (DayOf(t) + 6) \div 7

\* the first day of that week, a Monday
MondayOf(t) == WeekNumber(t) * 7 - 6

\* the text is four digits, "-W" and two digits
HasWeeklyForm(key) ==
    /\ Len(key) = 8
    /\ \A i \in {1, 2, 3, 4, 7, 8} : IsDigit(key[i])
    /\ key[5] = ChDash
    /\ key[6] = ChW

\* C18: two creation times of one Monday-to-Sunday week have the same
\* weekly key, two of different weeks have different keys, and the key is
\* YYYY-Wnn with the year of the Monday of the week.
C18_WeeklyKeysFollowWeeks ==
    (pc = "keyed" /\ period = "weekly") =>
      /\ ~IsNone(period_keys[1]) /\ ~IsNone(period_keys[2])
      /\ (period_keys[1] = period_keys[2])
            <=> (WeekNumber(key_dates[1]) = WeekNumber(key_dates[2]))
      /\ \A i \in {1, 2} :
           /\ HasWeeklyForm(period_keys[i][1])
           /\ SubSeq(period_keys[i][1], 1, 4) = DecStr(YearOf(MondayOf(key_dates[i])))

\* a Monday and the Sunday that ends its week, in different years
C18_Witness ==
    /\ pc = "keyed" /\ period = "weekly"
    /\ key_dates[1] = At(2024, 12, 30, 0)
    /\ key_dates[2] = At(2025, 1, 5, 0) + SecondsPerDay - 1
    /\ period_keys[1] = period_keys[2]

\* ------------------------------------------------------------------------
\* Properties of the grouping with an unknown period
\* ------------------------------------------------------------------------

\* C19: group_by_period with a period that is neither weekly nor monthly
\* returns the buckets it returns for the same records with weekly.
C19_UnknownPeriodIsWeekly ==
    (pc = "grouped" /\ period \notin {"weekly", "monthly"})
        => grouped_data = GroupByPeriodOf(lead_time_data, "weekly")

\* records of two weeks of one month grouped with the period daily
C19_Witness ==
    /\ pc = "grouped"
    /\ period = "daily"
    /\ Cardinality(DOMAIN grouped_data) >= 2
    /\ Cardinality(DOMAIN GroupByPeriodOf(lead_time_data, "monthly")) = 1

\* ------------------------------------------------------------------------
\* Properties of the statistics with outlier removal
\* ------------------------------------------------------------------------

\* C20: get_statistics_with_outlier_removal reports as outliers_removed the
\* count of the original statistics minus the count of the filtered
\* statistics, for every list and method, lists with values that are not
\* finite included.
C20_OutliersRemovedIsCountDifference ==
    pc = "statistics"
      => stat_result.outliers_removed
            = stat_result.original_stats.count - stat_result.filtered_stats.count

\* ------------------------------------------------------------------------
\* Properties of the timestamp values
\* ------------------------------------------------------------------------

\* the timestamp value with the same instant, written "2024-01-10T10:00:00Z"
\* where it is an already parsed datetime
Written(o) ==
    IF ~IsNone(o) /\ o[1].shape = "datetime" THEN Some(TV("iso_z", o[1].t)) ELSE o

\* the list with every parsed timestamp written as a string
AllWritten(prs) ==
    [i \in 1..Len(prs) |->
        [prs[i] EXCEPT !.created_at = Written(@), !.merged_at = Written(@),
                       !.closed_at = Written(@)]]

\* C21: a record whose created_at, merged_at or closed_at is an already
\* parsed time value yields the lead-time record of the record with the same
\* instants written as strings of an accepted shape.
C21_ParsedTimestampsAccepted ==
    pc = "calculated" => lead_time_data = CalcLoop(AllWritten(pull_requests), now).data

\* ------------------------------------------------------------------------
\* Properties of the caller's dictionary
\* ------------------------------------------------------------------------

\* C22: after calculate_moving_averages or handle_empty_periods returns, the
\* caller's trend statistics and every per-period entry in them have the
\* keys and the field values they had before the call.
C22_ArgumentsUnchanged ==
    pc \in {"averaged", "filled"} => trend_statistics = original_statistics

\* ------------------------------------------------------------------------
\* Properties of the failures of the batch operations
\* ------------------------------------------------------------------------

\* C23: group_by_period, calculate_period_statistics,
\* calculate_trend_statistics, get_trend_data and
\* get_multi_repository_trend_data never raise: for every list, lists with
\* elements that are None or that lack created_at or a lead time included,
\* the call returns a result.
C23_BatchNeverRaises == pc # "raised"

\* ------------------------------------------------------------------------
\* Properties of the trend statistics of any grouped data
\* ------------------------------------------------------------------------

\* the labels of the entries of the trend statistics
DirectionsReported ==
    {trend_statistics[k].trend_direction : k \in DOMAIN trend_statistics}

C25_NoPeriodLost ==
    (pc = "filled" /\ period_type = NormalizePeriod(period))
      => DOMAIN original_statistics \subseteq DOMAIN enhanced_statistics

\* the periods whose entry was computed without a failure
Computed == {k \in DOMAIN trend_statistics : "error" \notin DOMAIN trend_statistics[k]}

\* C26: in every entry of the trend statistics that was computed without a
\* failure the trend_direction agrees with the change_rate the entry
\* reports, which is rounded to two decimals: improving only below -5,
\* worsening only above 5, stable only from -5 to 5.
C26_DirectionAgreesWithReportedRate ==
    pc = "trend_statistics" =>
      \A k \in Computed :
        LET entry == trend_statistics[k]
        IN  /\ entry.trend_direction = "improving" => entry.change_rate < -500
            /\ entry.trend_direction = "worsening" => entry.change_rate > 500
            /\ entry.trend_direction = "stable" =>
                 (-500 <= entry.change_rate /\ entry.change_rate <= 500)

\* C27: for every bucket the median calculate_trend_statistics reports is
\* the median calculate_basic_statistics reports for the lead times of the
\* bucket, for an odd and for an even number of them.
C27_MedianIsStatisticalMedian ==
    pc = "trend_statistics" =>
      \A k \in Computed :
        LET entry == trend_statistics[k]
            median == BasicStatisticsOf(AsValues(entry.lead_times)).median
        IN  entry.median * median.den = median.num

\* ------------------------------------------------------------------------
\* Properties of the combined trend
\* ------------------------------------------------------------------------

\* no repository has an error entry and the combined trend is none
NoFailure ==
    /\ \A i \in DOMAIN Individual : ~IsErrorEntry(Individual[i])
    /\ ~IsErrorEntry(Combined)

\* the periods of a trend and the count it has for a period
PeriodsOfTrend(trend) ==
    IF "trend_statistics" \in DOMAIN trend THEN DOMAIN trend.trend_statistics ELSE {}

CountIn(trend, k) ==
    IF k \in PeriodsOfTrend(trend) THEN trend.trend_statistics[k].count ELSE 0

\* C28: when nothing fails in get_multi_repository_trend_data, the period
\* keys of the combined trend are the union of the period keys of the
\* individual trends, and the combined count of every period is the sum of
\* the counts the repositories have for it.
C28_CombinedIsSumOfIndividuals ==
    (pc = "multi" /\ NoFailure) =>
      /\ PeriodsOfTrend(Combined) = UNION {PeriodsOfTrend(Individual[i]) : i \in DOMAIN Individual}
      /\ \A k \in PeriodsOfTrend(Combined) :
           CountIn(Combined, k)
             = SumSeq([i \in 1..Len(repository_data) |->
                          IF i \in DOMAIN Individual THEN CountIn(Individual[i], k) ELSE 0])

\* two repositories that share the period 2024-W01, one of them with a
\* record of 2024-W02 as well; the combined period holds a creation time
\* held as text next to a parsed one
C28_Witness ==
    /\ pc = "multi"
    /\ NoFailure
    /\ DOMAIN Individual = {1, 2}
    /\ Individual[1].total_periods = 2
    /\ Individual[2].total_periods = 1
    /\ \E k \in PeriodsOfTrend(Combined) :
         /\ CountIn(Individual[1], k) = 1
         /\ CountIn(Individual[2], k) = 1
         /\ CountIn(Combined, k) = 2
         /\ "error" \in DOMAIN Combined.trend_statistics[k]

\* ------------------------------------------------------------------------
\* Properties of the retry wrapper and the fetch
\* ------------------------------------------------------------------------

\* C29: _retry_operation never completes without a result: whatever the
\* invocations of the operation do and whatever the rate-limit state is, it
\* returns the value of an invocation that succeeded or it raises; it does
\* not return None when its attempts are used up.
C29_ReturnsValueOrRaises ==
    retry_result.status = "returned" =>
      /\ ~IsNone(retry_result.value)
      /\ operation_outcomes[retry_result.value[1]] = "success"

\* the invocations made so far that raised an error that is not retried
NotRetried ==
    {k \in 1..invocations : operation_outcomes[k] \in {"auth", "not_found"}}

\* every invocation the loop can make fails with a retryable error that is
\* no rate-limit error
AllFailRetryable ==
    \A k \in DOMAIN operation_outcomes : operation_outcomes[k] = "other"

\* the target repositories of the fetch whose lists func returned
RepositoriesFetched ==
    SelectSeq([i \in 1..Len(repo_outcomes) |-> i], LAMBDA i : repo_outcomes[i] = "ok")

====
